---------------------------- MODULE Spec2Model ----------------------------
(***************************************************************************)
(* Model of the speed_connection_europe pipeline: the two weight-matrix    *)
(* builders (matrix/grid_h3_matrix.py, matrix/quadkey_h3_matrix.py), the   *)
(* weighted aggregators (etl_population.py, etl_internet.py) and the       *)
(* dataset fuser (merge_datasets.py).                                      *)
(*                                                                         *)
(* Floating-point numbers are modelled as exact rationals <<n, d>> with    *)
(* d > 0 in lowest terms; a null (polars null / Python None) is <<>>.      *)
(* Hex cells are the integers 1..NumCells laid out on a ring; a source     *)
(* geometry carries the areas the geometry library reports for it.         *)
(***************************************************************************)
EXTENDS Integers, Sequences, FiniteSets, TLC

(***************************************************************************)
(* Bounds of the model.                                                    *)
(***************************************************************************)
\* hex cells of the ring
NumCells == 4
\* longest list of source geometries read from the input
MaxGeoms == 3
\* BATCH_SIZE of the builders (500 in the source), scaled to the input size
BATCH_SIZE == 2
\* largest MAX_WORKERS a machine gives (cpu_count - 1, at least 1)
MaxWorkers == 2
\* builder runs in one behaviour
MaxRuns == 2
\* longest list of source geometries in the aggregators' worlds
MaxAggGeoms == 2
\* hex cells holding rows in the fuser's worlds
MaxFuseCells == 2

(***************************************************************************)
(* Program constants.                                                      *)
(***************************************************************************)
\* H3_RES = 8: the resolution the builders compute cells at
H3_RES == 8
\* H3_RESOLUTION = 8: the resolution the ETL stages name their output after
H3_RESOLUTION == 8
\* K_RING_SIZE = 1
K_RING_SIZE == 1
\* the materiality threshold 0.001 of `if weight > 0.001`, as 1 / 1000
THRESHOLD_DEN == 1000

Cells == 1..NumCells

(***************************************************************************)
(* Exact arithmetic standing for the code's float arithmetic.              *)
(***************************************************************************)
Null == <<>>

IsNull(v) == v = Null

Abs(x) == IF x < 0 THEN -x ELSE x

RECURSIVE GCD(_, _)
GCD(a, b) == IF b = 0 THEN a ELSE GCD(b, a % b)

\* the rational n / d, d > 0, in lowest terms
Rat(n, d) == LET g == GCD(Abs(n), d) IN <<n \div g, d \div g>>

Zero == <<0, 1>>

One == <<1, 1>>

FromInt(n) == <<n, 1>>

RatAdd(a, b) ==
    LET g == GCD(a[2], b[2])
        l == (a[2] \div g) * b[2]
    IN  Rat(a[1] * (l \div a[2]) + b[1] * (l \div b[2]), l)

RatMul(a, b) == Rat(a[1] * b[1], a[2] * b[2])

\* a / b for b > 0
RatDiv(a, b) == Rat(a[1] * b[2], a[2] * b[1])

RatLt(a, b) == a[1] * b[2] < b[1] * a[2]

RatLe(a, b) == a[1] * b[2] <= b[1] * a[2]

(***************************************************************************)
(* Source geometries.  A geometry is                                       *)
(*   [key, area, center, inter, bad]                                       *)
(* key: GRD_ID or quadkey; area: the polygon's area after reprojection;    *)
(* center: the hex cell holding its centroid; inter: the areas of its      *)
(* intersection with the cells center-2, center-1, center, center+1 of the *)
(* ring (cells tile the plane, so they sum to area); bad: reprojecting or  *)
(* decoding it raises.                                                     *)
(***************************************************************************)
Shapes ==
    { [area |-> 10,   inter |-> <<0, 0, 10, 0>>,  bad |-> FALSE],   \* inside one cell
      [area |-> 10,   inter |-> <<0, 0, 7, 3>>,   bad |-> FALSE],   \* 70% / 30%
      [area |-> 1000, inter |-> <<0, 1, 999, 0>>, bad |-> FALSE],   \* a sliver of exactly 0.1%
      [area |-> 20,   inter |-> <<5, 5, 5, 5>>,   bad |-> FALSE],   \* wider than the k-ring
      [area |-> 0,    inter |-> <<0, 0, 0, 0>>,   bad |-> FALSE],   \* degenerate
      [area |-> 10,   inter |-> <<0, 0, 10, 0>>,  bad |-> TRUE] }   \* not reprojectable

\* the i-th geometry of an input list: key i, centroid in cell i
Geom(i, s) ==
    [key |-> i, area |-> s.area, center |-> ((i - 1) % NumCells) + 1,
     inter |-> s.inter, bad |-> s.bad]

\* the input lists of at most n geometries with shapes of S
GeomListsOf(S, n) ==
    UNION { { [i \in 1..m |-> Geom(i, f[i])] : f \in [1..m -> S] } : m \in 0..n }

\* the input lists of the builder's worlds
GeomLists == GeomListsOf(Shapes, MaxGeoms)

\* the cell `off` steps from c on the ring
CellAt(c, off) == ((c - 1 + off + NumCells) % NumCells) + 1

\* h3.grid_disk(center, k) in the order it is iterated
grid_disk(c, k) == [j \in 1..(2 * k + 1) |-> CellAt(c, j - k - 1)]

\* area of intersection(geometry, cell polygon)
IntersectionArea(g, c) ==
    IF \E o \in -2..1 : CellAt(g.center, o) = c
    THEN g.inter[(CHOOSE o \in -2..1 : CellAt(g.center, o) = c) + 3]
    ELSE 0


(***************************************************************************)
(* Weight-matrix builders.  A matrix row is [key, h3_index, weight].       *)
(***************************************************************************)
\* the rows one geometry appends when the test of the weight is left out
RECURSIVE CandidateRowsNoThreshold(_, _, _)
CandidateRowsNoThreshold(g, candidates, j) ==
    IF j > Len(candidates) THEN <<>>
    ELSE LET h3_idx == candidates[j]
             ia     == IntersectionArea(g, h3_idx)
             rest   == CandidateRowsNoThreshold(g, candidates, j + 1)
         IN  IF ia > 0
             THEN <<[key |-> g.key, h3_index |-> h3_idx, weight |-> Rat(ia, g.area)]>> \o rest
             ELSE rest

\* the rows one geometry appends: one per candidate cell that intersects it
\* with weight = intersection.area / area above the threshold
RECURSIVE CandidateRows(_, _, _)
CandidateRows(g, candidates, j) ==
    IF j > Len(candidates) THEN <<>>
    ELSE LET h3_idx == candidates[j]
             ia     == IntersectionArea(g, h3_idx)
             rest   == CandidateRows(g, candidates, j + 1)
         IN  IF ia > 0 /\ RatLt(Rat(1, THRESHOLD_DEN), Rat(ia, g.area))
             THEN <<[key |-> g.key, h3_index |-> h3_idx, weight |-> Rat(ia, g.area)]>> \o rest
             ELSE rest

\* process_grid_batch: a geometry that raises or has area <= 0 is passed over
RECURSIVE process_grid_batch(_)
process_grid_batch(batch_data) ==
    IF batch_data = <<>> THEN <<>>
    ELSE LET g == Head(batch_data)
             mine == IF g.bad \/ g.area <= 0 THEN <<>>
                     ELSE CandidateRows(g, grid_disk(g.center, K_RING_SIZE), 1)
         IN  mine \o process_grid_batch(Tail(batch_data))

\* process_quadkey_batch: a quadkey that raises is passed over
RECURSIVE process_quadkey_batch(_)
process_quadkey_batch(quadkeys) ==
    IF quadkeys = <<>> THEN <<>>
    ELSE LET g == Head(quadkeys)
             mine == IF g.bad THEN <<>>
                     ELSE CandidateRows(g, grid_disk(g.center, K_RING_SIZE), 1)
         IN  mine \o process_quadkey_batch(Tail(quadkeys))

process_batch(kind, batch) ==
    IF kind = "grid" THEN process_grid_batch(batch) ELSE process_quadkey_batch(batch)

\* batches = [data[i : i + BATCH_SIZE] for i in range(0, total, BATCH_SIZE)]
MakeBatches(data) ==
    LET total == Len(data)
        n == (total + BATCH_SIZE - 1) \div BATCH_SIZE
    IN  [b \in 1..n |->
            SubSeq(data, (b - 1) * BATCH_SIZE + 1,
                   IF b * BATCH_SIZE < total THEN b * BATCH_SIZE ELSE total)]

\* pl.col("weight").sum().over(key): the sum of the weights of the rows of one key
RECURSIVE WeightSumOver(_, _)
WeightSumOver(df, key) ==
    IF df = <<>> THEN Zero
    ELSE IF Head(df).key = key
         THEN RatAdd(Head(df).weight, WeightSumOver(Tail(df), key))
         ELSE WeightSumOver(Tail(df), key)

\* the sum of the whole weight column
RECURSIVE WeightSumAll(_)
WeightSumAll(df) ==
    IF df = <<>> THEN Zero ELSE RatAdd(Head(df).weight, WeightSumAll(Tail(df)))

\* Normalize with the window dropped: weight / weight.sum()
NormalizeNoOver(df) ==
    [r \in 1..Len(df) |-> [df[r] EXCEPT !.weight = RatDiv(df[r].weight, WeightSumAll(df))]]

\* Normalize with mean in place of sum: weight / weight.mean().over(key)
NormalizeByMean(df) ==
    [r \in 1..Len(df) |->
        [df[r] EXCEPT !.weight =
            RatDiv(RatMul(df[r].weight,
                          FromInt(Cardinality({ x \in 1..Len(df) : df[x].key = df[r].key }))),
                   WeightSumOver(df, df[r].key))]]

\* Normalize left out: the raw weights are written
NormalizeNone(df) == df

\* weight / weight.sum().over(key)
Normalize(df) ==
    [r \in 1..Len(df) |->
        [df[r] EXCEPT !.weight = RatDiv(df[r].weight, WeightSumOver(df, df[r].key))]]

Absent == [state |-> "absent", rows |-> <<>>]

\* a file whose write was cut short: it exists and no parquet reader accepts it
Partial == [state |-> "partial", rows |-> <<>>]

Complete(rows) == [state |-> "complete", rows |-> rows]

\* the same for the tables kept as sets of rows
AbsentTable == [state |-> "absent", rows |-> {}]

PartialTable == [state |-> "partial", rows |-> {}]

CompleteTable(rows) == [state |-> "complete", rows |-> rows]

\* Path.exists()
Exists(file) == file.state # "absent"

\* pl.read_parquet succeeds: the file ends with its footer
Readable(file) == file.state = "complete"

RowSet(rows) == { rows[r] : r \in 1..Len(rows) }

(***************************************************************************)
(* Weighted aggregators.  Tables whose row order the code leaves open      *)
(* (group_by, join) are sets of rows.                                      *)
(***************************************************************************)
\* the no-data value of the census grid
NODATA == -9999

\* .replace(-9999, None)
CleanNoData(v) == IF v = FromInt(NODATA) THEN Null ELSE v

\* a join that keeps only the first matrix entry of each key
InnerJoinFirstMatch(df, matrix) ==
    { [key |-> df[a].key, h3_index |-> matrix[m].h3_index, weight |-> matrix[m].weight,
       val |-> df[a]] :
        <<a, m>> \in { <<x, y>> \in (1..Len(df)) \X (1..Len(matrix)) :
                        /\ df[x].key = matrix[y].key
                        /\ \A z \in 1..(y - 1) : matrix[z].key # matrix[y].key } }

\* df.join(matrix, on=key, how="inner"): one row per matching pair
InnerJoin(df, matrix) ==
    { [key |-> df[a].key, h3_index |-> matrix[m].h3_index, weight |-> matrix[m].weight,
       val |-> df[a]] :
        <<a, m>> \in { <<x, y>> \in (1..Len(df)) \X (1..Len(matrix)) :
                        df[x].key = matrix[y].key } }

\* the sum of a set of rationals given as the values F[x], x \in S
RECURSIVE SumF(_, _)
SumF(S, F) ==
    IF S = {} THEN Zero
    ELSE LET x == CHOOSE y \in S : TRUE IN RatAdd(F[x], SumF(S \ {x}, F))

\* the group's values summed without their weights
WeightedSumNoWeight(joined, h3_idx, col) ==
    LET grp == { j \in joined : j.h3_index = h3_idx /\ ~IsNull(j.val[col]) }
    IN  SumF(grp, [j \in grp |-> j.val[col]])

\* group h3_idx of joined: pl.col(w_col).sum(), nulls skipped, 0 when none is left
WeightedSum(joined, h3_idx, col) ==
    LET grp == { j \in joined : j.h3_index = h3_idx /\ ~IsNull(j.val[col]) }
    IN  SumF(grp, [j \in grp |-> RatMul(j.val[col], j.weight)])

\* group h3_idx of joined: pl.col("weight").sum()
WeightSum(joined, h3_idx) ==
    LET grp == { j \in joined : j.h3_index = h3_idx }
    IN  SumF(grp, [j \in grp |-> j.weight])

GroupKeys(joined) == { j.h3_index : j \in joined }

\* gdf_clean with a row that has -9999 in any column blanked in every column
gdf_clean_rowwise(gdf) ==
    [a \in 1..Len(gdf) |->
        IF gdf[a].T = FromInt(NODATA) \/ gdf[a].M = FromInt(NODATA)
        THEN [key |-> gdf[a].key, T |-> Null, M |-> Null]
        ELSE gdf[a]]

\* etl_population: the rows of gdf_clean, -9999 replaced by None
gdf_clean(gdf) ==
    [a \in 1..Len(gdf) |->
        [key |-> gdf[a].key, T |-> CleanNoData(gdf[a].T), M |-> CleanNoData(gdf[a].M)]]

\* etl_population: h3_agg, one row per h3_index of the join
PopulationAggregate(gdf, matrix) ==
    LET joined == InnerJoin(gdf_clean(gdf), matrix)
    IN  { [h3_index |-> c,
           T |-> WeightedSum(joined, c, "T"),
           M |-> WeightedSum(joined, c, "M"),
           cell_count |-> Cardinality({ j.key : j \in { x \in joined : x.h3_index = c } })] :
          c \in GroupKeys(joined) }

\* etl_internet.process_quarter_file: h3_agg, one row per h3_index of the join;
\* avg_d_kbps = sum_avg_d_kbps / weight_sum, tests = sum_tests
QuarterAggregate(df, matrix) ==
    LET joined == InnerJoin(df, matrix)
    IN  { [h3_index |-> c,
           avg_d_kbps |-> RatDiv(WeightedSum(joined, c, "avg_d_kbps"), WeightSum(joined, c)),
           tests |-> WeightedSum(joined, c, "tests")] :
          c \in GroupKeys(joined) }

(***************************************************************************)
(* etl_internet.main: the per-quarter cache files merged into one table.   *)
(* A quarter file is named by [data_type, year, quarter]; the column       *)
(* <data_type>_<year>_q<quarter>_avg_d_kbps of the merged frame is the     *)
(* column avg_d_kbps of that file's cache.                                 *)
(***************************************************************************)
\* the quarter files of the model, in the order main visits them
QUARTER_FILES ==
    << [data_type |-> "fixed",  year |-> 2023, quarter |-> 1],
       [data_type |-> "mobile", year |-> 2023, quarter |-> 1],
       [data_type |-> "fixed",  year |-> 2024, quarter |-> 1] >>

QuarterIds == 1..Len(QUARTER_FILES)

\* the rollup columns main may add
ROLLUPS ==
    { [name |-> "fixed_download_2023",   data_type |-> "fixed",  only2023 |-> TRUE],
      [name |-> "fixed_download_total",  data_type |-> "fixed",  only2023 |-> FALSE],
      [name |-> "mobile_download_2023",  data_type |-> "mobile", only2023 |-> TRUE],
      [name |-> "mobile_download_total", data_type |-> "mobile", only2023 |-> FALSE] }

\* the quarter columns a rollup averages: col.startswith('<type>_2023_') for the
\* 2023 rollup, col.startswith('<type>_') and '_q' in col for the total
RollupSources(r, cached) ==
    { q \in cached : /\ QUARTER_FILES[q].data_type = r.data_type
                     /\ (r.only2023 => QUARTER_FILES[q].year = 2023) }

\* ListMean that divides by the number of all elements, a null counting as 0
ListMeanAllElements(vals) ==
    LET idx == { k \in DOMAIN vals : ~IsNull(vals[k]) }
    IN  IF idx = {} THEN Null
        ELSE RatDiv(SumF(idx, [k \in idx |-> vals[k]]), FromInt(Cardinality(DOMAIN vals)))

\* pl.concat_list(cols).list.mean(): the mean of the non-null elements, null without any
ListMean(vals) ==
    LET idx == { k \in DOMAIN vals : ~IsNull(vals[k]) }
    IN  IF idx = {} THEN Null
        ELSE RatDiv(SumF(idx, [k \in idx |-> vals[k]]), FromInt(Cardinality(idx)))

\* the value of a cache's avg_d_kbps column for a cell after the left join
QuarterValue(rows, c) ==
    IF \E r \in rows : r.h3_index = c
    THEN (CHOOSE r \in rows : r.h3_index = c).avg_d_kbps
    ELSE Null

\* main: the merged table; caches maps each processed quarter file to its cache rows
InternetTable(caches) ==
    LET cached == DOMAIN caches
        all_h3 == UNION { { r.h3_index : r \in caches[q] } : q \in cached }
        cols   == { r \in ROLLUPS : RollupSources(r, cached) # {} }
        names  == { r.name : r \in cols }
        rollup(n, c) ==
            LET r   == CHOOSE x \in cols : x.name = n
                src == RollupSources(r, cached)
            IN  ListMean([q \in src |-> QuarterValue(caches[q], c)])
    IN  { [col \in {"h3_index"} \cup names |->
              IF col = "h3_index" THEN c ELSE rollup(col, c)] : c \in all_h3 }

(***************************************************************************)
(* Dataset fuser (merge_datasets.py).                                      *)
(***************************************************************************)
\* prepare_population_data: T -> pop_total, M -> pop_male
prepare_population_data(pop_df) ==
    { [h3_index |-> r.h3_index, pop_total |-> r.T, pop_male |-> r.M] : r \in pop_df }

\* prepare_health_data: accessibility_mean -> health_distance
prepare_health_data(health_df) ==
    { [h3_index |-> r.h3_index, health_distance |-> r.accessibility_mean] : r \in health_df }

\* the column names ending in _2023 or _total
AggregatedCols == { r.name : r \in ROLLUPS }

\* prepare_internet_data: h3_index and the columns ending in _2023 or _total
prepare_internet_data(internet_df) ==
    { [col \in DOMAIN r \cap ({"h3_index"} \cup AggregatedCols) |-> r[col]] : r \in internet_df }

\* the internet columns of a table
InternetCols(internet_df) == UNION { DOMAIN r : r \in internet_df } \ {"h3_index"}

\* a join that pairs every population row with every health row
JoinInnerAnyKey(pop_df, health_df) ==
    { [h3_index |-> p.h3_index, pop_total |-> p.pop_total, pop_male |-> p.pop_male,
       health_distance |-> h.health_distance] : <<p, h>> \in pop_df \X health_df }

\* pop_df.join(health_df, on='h3_index', how='inner')
JoinInner(pop_df, health_df) ==
    { [h3_index |-> p.h3_index, pop_total |-> p.pop_total, pop_male |-> p.pop_male,
       health_distance |-> h.health_distance] :
        <<p, h>> \in { <<x, y>> \in pop_df \X health_df : x.h3_index = y.h3_index } }

\* an inner join in place of the left join
JoinLeftAsInner(merged, internet_df) ==
    LET icols == InternetCols(internet_df)
    IN  UNION { { m @@ [c \in icols |-> i[c]] :
                    i \in { x \in internet_df : x.h3_index = m.h3_index } } : m \in merged }

\* a left join that keeps the unmatched form of a row next to its matches
JoinLeftKeepUnmatched(merged, internet_df) ==
    LET icols == InternetCols(internet_df)
        nulls == [c \in icols |-> Null]
    IN  UNION { { m @@ nulls } \cup
                { m @@ [c \in icols |-> i[c]] :
                    i \in { x \in internet_df : x.h3_index = m.h3_index } } : m \in merged }

\* merged.join(internet_df, on='h3_index', how='left')
JoinLeft(merged, internet_df) ==
    LET icols == InternetCols(internet_df)
        matches(m) == { i \in internet_df : i.h3_index = m.h3_index }
        nulls == [c \in icols |-> Null]
    IN  UNION { IF matches(m) = {} THEN { m @@ nulls }
                ELSE { m @@ [c \in icols |-> i[c]] : i \in matches(m) } : m \in merged }

\* merge_datasets
merge_datasets(pop_df, health_df, internet_df) ==
    JoinLeft(JoinInner(pop_df, health_df), internet_df)

\* the filter applied to the population rounded to an integer: above one half
filter_rounded(df) ==
    { r \in df : /\ ~IsNull(r.pop_total)
                 /\ 2 * r.pop_total[1] > r.pop_total[2]
                 /\ ~IsNull(r.health_distance) }

\* filter_and_finalize: pop_total > 0 and health_distance not null
filter_and_finalize(df) ==
    { r \in df : /\ ~IsNull(r.pop_total) /\ RatLt(Zero, r.pop_total)
                 /\ ~IsNull(r.health_distance) }

\* floor(n / d)
Floor(x) == x[1] \div x[2]

\* Expr.round(0): to the nearest integer; a tie goes away from zero or to the even
\* neighbour, as the installed polars rounds
Round0(x, mode) ==
    LET f == Floor(x)
        twice == 2 * (x[1] - f * x[2])
    IN  IF twice < x[2] THEN f
        ELSE IF twice > x[2] THEN f + 1
        ELSE IF mode = "half_away_from_zero" THEN (IF x[1] >= 0 THEN f + 1 ELSE f)
        ELSE (IF f % 2 = 0 THEN f ELSE f + 1)

\* Expr.round(2)
Round2(x, mode) == Rat(Round0(RatMul(x, FromInt(100)), mode), 100)

\* save_output: the cast expressions, column by column
save_output(df, mode) ==
    { [col \in DOMAIN r |->
          IF col = "h3_index" THEN r[col]
          ELSE IF IsNull(r[col]) THEN Null
          ELSE IF col \in {"pop_total", "pop_male"} THEN FromInt(Round0(r[col], mode))
          ELSE Round2(r[col], mode)] : r \in df }

(***************************************************************************)
(* Reporting layer (analysis/scripts, analysis/run_analysis.py): the files *)
(* it reads and writes, by path.                                           *)
(***************************************************************************)
\* merge_datasets OUTPUT_FILE, 01_prepare_nuts_data H3_DATA
H3_DATA == "data/data_h3_res8.parquet"

\* 01_prepare_nuts_data NUTS_DATA
NUTS_DATA == "data/statistical_units/NUTS_RG_60M_2024_3035.gpkg"

\* 01_prepare_nuts_data OUTPUT_FILE, INPUT_FILE of the scripts 02, 03 and 04
H3_WITH_NUTS == "analysis/data/h3_with_nuts.parquet"

CONNECTIVITY_FILE == "analysis/data/connectivity_analysis.parquet"

CONNECTIVITY_STATS == "analysis/data/connectivity_stats.parquet"

HEALTHCARE_FILE == "analysis/data/healthcare_analysis.parquet"

HEALTHCARE_STATS == "analysis/data/healthcare_stats.parquet"

DEMOGRAPHICS_FILE == "analysis/data/demographics_analysis.parquet"

JOINT_VULN_FILE == "analysis/data/joint_vulnerability.parquet"

\* MAPS_DIR and CHARTS_DIR of 05_generate_maps
FIGURES == "analysis/figures"

\* run_analysis OUTPUT_FILE
EXCEL_REPORT == "analysis/european_analysis_results.xlsx"

\* the paths of the reporting layer other than the fused dataset
ReportPaths ==
    { NUTS_DATA, H3_WITH_NUTS, CONNECTIVITY_FILE, CONNECTIVITY_STATS, HEALTHCARE_FILE,
      HEALTHCARE_STATS, DEMOGRAPHICS_FILE, JOINT_VULN_FILE, FIGURES, EXCEL_REPORT }

\* no file of the reporting layer exists
NoAnalysis == [p \in ReportPaths |-> AbsentTable]

VARIABLES
    srcType,        \* "grid" or "quadkey": which builder and matrix this world is about
    source_data,    \* the geometries of GPKG_FILE, or the unique quadkeys of INPUT_DIR
    attr_rows,      \* the attribute rows of the GPKG: [key, T, M]
    quarter_rows,   \* per quarter file of INPUT_DIR: its rows [key, avg_d_kbps, tests]
    round_mode,     \* how the installed polars rounds a tie
    matrix_file,    \* OUTPUT_MATRIX
    pc,             \* where the builder's main is: "idle", "computing"
    max_workers,    \* MAX_WORKERS of the running builder
    batches,        \* calculate_intersection_weights: batches
    task,           \* per batch: "queued", "running", "done" (the pool's view)
    task_result,    \* per batch: what its worker returned
    results,        \* calculate_intersection_weights: results
    next_idx,       \* the batch the coordinator's loop waits for next
    finish_order,   \* the batches in the order their workers finished (history)
    outcome,        \* how the last builder run ended
    runs,           \* builder runs started
    loads,          \* calls of load_grid_cells / get_all_unique_quadkeys
    builds,         \* history: per from-scratch build that wrote the matrix, its
                    \* MAX_WORKERS, the order its batches finished in, the rows written
    pop_file,       \* etl_population OUTPUT_H3_FILE
    cache_file,     \* per quarter file: its <stem>_h3res8.parquet
    internet_file,  \* etl_internet OUTPUT_FILE
    health_file,    \* etl_health OUTPUT_FILE
    data_file,      \* merge_datasets OUTPUT_FILE
    stage_result,   \* the consumer stage that ran last and how it ended
    pipeline,       \* run_pipeline.main: its status and, per script it ran, the result
    fs,             \* the files a run of run_pipeline works on
    analysis        \* the files of the reporting layer, by path

inputVars == <<srcType, source_data, attr_rows, quarter_rows, round_mode>>

poolVars == <<max_workers, batches, task, task_result, results, next_idx, finish_order>>

tableVars == <<pop_file, cache_file, internet_file, health_file, data_file>>

pipeVars == <<pipeline, fs, analysis>>

vars == <<inputVars, matrix_file, pc, poolVars, outcome, runs, loads, builds,
          tableVars, stage_result, pipeVars>>

\* run_pipeline is not running
NoPipeline ==
    /\ pipeline = [status |-> "idle", log |-> <<>>]
    /\ fs = <<>>
    /\ analysis = NoAnalysis

KeysOf(data) == { data[i].key : i \in 1..Len(data) }

\* no builder process is alive: its locals do not exist
NoProcess ==
    /\ max_workers = 1
    /\ batches = <<>>
    /\ task = <<>>
    /\ task_result = <<>>
    /\ results = <<>>
    /\ next_idx = 1
    /\ finish_order = <<>>

\* the builder process ends: its locals are gone
ProcessExit ==
    /\ max_workers' = 1
    /\ batches' = <<>>
    /\ task' = <<>>
    /\ task_result' = <<>>
    /\ results' = <<>>
    /\ next_idx' = 1
    /\ finish_order' = <<>>

InitBuilder ==
    /\ pc = "idle"
    /\ NoProcess
    /\ outcome = "none"
    /\ runs = 0
    /\ loads = 0
    /\ builds = <<>>

\* CacheBranch with the existence check lost: every run builds
CacheBranchNever(file) == FALSE

\* main: `if OUTPUT_MATRIX.exists()`, the branch that skips the build
CacheBranch(file) == Exists(file)

\* CacheHit without reading the artifact: existence alone counts
CacheHitExistsOnly(file) == Exists(file)

\* main: the cache branch returns: pl.read_parquet(OUTPUT_MATRIX) did not raise
CacheHit(file) == CacheBranch(file) /\ Readable(file)

\* main, the artifact exists and reads: report it and return
MainCacheHit ==
    /\ pc = "idle" /\ runs < MaxRuns
    /\ CacheHit(matrix_file)
    /\ outcome' = "cache_hit"
    /\ runs' = runs + 1
    /\ UNCHANGED <<pipeVars, inputVars, matrix_file, pc, poolVars, loads, builds, tableVars,
                   stage_result>>

\* main, the artifact exists and pl.read_parquet raises: the run dies on the exception
MainReadError ==
    /\ pc = "idle" /\ runs < MaxRuns
    /\ CacheBranch(matrix_file) /\ ~CacheHit(matrix_file)
    /\ outcome' = "read_error"
    /\ runs' = runs + 1
    /\ UNCHANGED <<pipeVars, inputVars, matrix_file, pc, poolVars, loads, builds, tableVars,
                   stage_result>>

\* main, no artifact, and the loader returns nothing: return without writing
MainNoData ==
    /\ pc = "idle" /\ runs < MaxRuns
    /\ ~CacheBranch(matrix_file)
    /\ source_data = <<>>
    /\ outcome' = "no_data"
    /\ runs' = runs + 1
    /\ loads' = loads + 1
    /\ UNCHANGED <<pipeVars, inputVars, matrix_file, pc, poolVars, builds, tableVars, stage_result>>

\* main, no artifact: load the geometries and enter calculate_intersection_weights
MainStart ==
    /\ pc = "idle" /\ runs < MaxRuns
    /\ ~CacheBranch(matrix_file)
    /\ source_data # <<>>
    /\ \E w \in 1..MaxWorkers : max_workers' = w
    /\ batches' = MakeBatches(source_data)
    /\ task' = [b \in 1..Len(MakeBatches(source_data)) |-> "queued"]
    /\ task_result' = [b \in 1..Len(MakeBatches(source_data)) |-> <<>>]
    /\ results' = <<>>
    /\ next_idx' = 1
    /\ finish_order' = <<>>
    /\ pc' = "computing"
    /\ outcome' = "running"
    /\ runs' = runs + 1
    /\ loads' = loads + 1
    /\ UNCHANGED <<pipeVars, inputVars, matrix_file, builds, tableVars, stage_result>>

\* Extend that keeps only the rows of the batch taken last
ExtendOverwrite(acc, batch_results) == batch_results

\* what the coordinator holds after taking one batch's rows: results.extend
Extend(acc, batch_results) == acc \o batch_results

\* MAX_WORKERS == 1: results.extend(process_batch(batch)) for the next batch
SequentialStep ==
    /\ pc = "computing" /\ max_workers = 1
    /\ next_idx <= Len(batches)
    /\ results' = Extend(results, process_batch(srcType, batches[next_idx]))
    /\ next_idx' = next_idx + 1
    /\ finish_order' = Append(finish_order, next_idx)
    /\ UNCHANGED <<pipeVars, inputVars, matrix_file, pc, max_workers, batches, task, task_result,
                   outcome, runs, loads, builds, tableVars, stage_result>>

\* a free worker of the pool takes the oldest queued batch
WorkerStart(b) ==
    /\ pc = "computing" /\ max_workers > 1
    /\ task[b] = "queued"
    /\ \A a \in 1..(b - 1) : task[a] # "queued"
    /\ Cardinality({ a \in 1..Len(task) : task[a] = "running" }) < max_workers
    /\ task' = [task EXCEPT ![b] = "running"]
    /\ UNCHANGED <<pipeVars, inputVars, matrix_file, pc, max_workers, batches, task_result, results,
                   next_idx, finish_order, outcome, runs, loads, builds, tableVars,
                   stage_result>>

\* a worker returns its batch's rows; batches finish in any order
WorkerFinish(b) ==
    /\ pc = "computing" /\ max_workers > 1
    /\ task[b] = "running"
    /\ task' = [task EXCEPT ![b] = "done"]
    /\ task_result' = [task_result EXCEPT ![b] = process_batch(srcType, batches[b])]
    /\ finish_order' = Append(finish_order, b)
    /\ UNCHANGED <<pipeVars, inputVars, matrix_file, pc, max_workers, batches, results, next_idx,
                   outcome, runs, loads, builds, tableVars, stage_result>>

\* executor.map yields in submission order: results.extend(batch_results)
Collect ==
    /\ pc = "computing" /\ max_workers > 1
    /\ next_idx <= Len(batches)
    /\ task[next_idx] = "done"
    /\ results' = Extend(results, task_result[next_idx])
    /\ next_idx' = next_idx + 1
    /\ UNCHANGED <<pipeVars, inputVars, matrix_file, pc, max_workers, batches, task, task_result,
                   finish_order, outcome, runs, loads, builds, tableVars, stage_result>>

\* AllCollected not waiting for every batch: one batch's rows are enough
AllCollectedAny == next_idx > 1

\* the loop over the batches has ended
AllCollected == next_idx > Len(batches)

\* MainNoIntersections without the is_empty test: the empty frame is written
MainWriteEmpty ==
    /\ pc = "computing" /\ AllCollected
    /\ results = <<>>
    /\ matrix_file' = Complete(<<>>)
    /\ pc' = "idle"
    /\ ProcessExit
    /\ outcome' = "no_intersections"
    /\ UNCHANGED <<pipeVars, inputVars, runs, loads, builds, tableVars, stage_result>>

\* main, df_matrix.is_empty(): return without writing
MainNoIntersections ==
    /\ pc = "computing" /\ AllCollected
    /\ results = <<>>
    /\ pc' = "idle"
    /\ ProcessExit
    /\ outcome' = "no_intersections"
    /\ UNCHANGED <<pipeVars, inputVars, matrix_file, runs, loads, builds, tableVars,
                   stage_result>>

\* main: normalize and df_matrix.write_parquet(OUTPUT_MATRIX)
MainWrite ==
    /\ pc = "computing" /\ AllCollected
    /\ results # <<>>
    /\ matrix_file' = Complete(Normalize(results))
    /\ builds' = Append(builds, [workers |-> max_workers, order |-> finish_order,
                                 rows |-> RowSet(Normalize(results))])
    /\ pc' = "idle"
    /\ ProcessExit
    /\ outcome' = "built"
    /\ UNCHANGED <<pipeVars, inputVars, runs, loads, tableVars, stage_result>>

\* the caller kills the run while write_parquet is writing OUTPUT_MATRIX
AbortDuringWrite ==
    /\ pc = "computing" /\ AllCollected
    /\ results # <<>>
    /\ matrix_file' = Partial
    /\ pc' = "idle"
    /\ ProcessExit
    /\ outcome' = "aborted"
    /\ UNCHANGED <<pipeVars, inputVars, runs, loads, builds, tableVars, stage_result>>

\* the caller kills the run before it writes
AbortBeforeWrite ==
    /\ pc = "computing"
    /\ pc' = "idle"
    /\ ProcessExit
    /\ outcome' = "aborted"
    /\ UNCHANGED <<pipeVars, inputVars, matrix_file, runs, loads, builds, tableVars,
                   stage_result>>

\* the operator deletes the artifact to force a rebuild
DeleteMatrix ==
    /\ pc = "idle"
    /\ Exists(matrix_file)
    /\ matrix_file' = Absent
    /\ UNCHANGED <<pipeVars, inputVars, pc, poolVars, outcome, runs, loads, builds, tableVars,
                   stage_result>>

(***************************************************************************)
(* Consumer stages.  The pipeline runs its stages one after the other, so  *)
(* a stage runs only while no builder is running.                          *)
(***************************************************************************)
Result(stage, result) == [stage |-> stage, result |-> result]

\* convert_to_h3_matrix without the test of output_file.exists(): every run computes
convert_always(output_file, matrix, gdf) ==
    IF ~Exists(matrix)
    THEN [file |-> output_file, result |-> "matrix_missing"]
    ELSE IF ~Readable(matrix)
    THEN [file |-> output_file, result |-> "exception"]
    ELSE [file |-> CompleteTable(PopulationAggregate(gdf, matrix.rows)), result |-> "ok"]

\* etl_population.convert_to_h3_matrix: the output file it leaves and what it returns
convert_to_h3_matrix(output_file, matrix, gdf) ==
    IF Exists(output_file)
    THEN [file |-> output_file,
          result |-> IF Readable(output_file) THEN "cached" ELSE "crash"]
    ELSE IF ~Exists(matrix)
    THEN [file |-> output_file, result |-> "matrix_missing"]
    ELSE IF ~Readable(matrix)
    THEN [file |-> output_file, result |-> "exception"]
    ELSE [file |-> CompleteTable(PopulationAggregate(gdf, matrix.rows)), result |-> "ok"]

\* etl_population.main
PopulationETL ==
    /\ pc = "idle" /\ srcType = "grid"
    /\ LET r == convert_to_h3_matrix(pop_file, matrix_file, attr_rows)
       IN  /\ pop_file' = r.file
           /\ stage_result' = Result("population", r.result)
    /\ UNCHANGED <<pipeVars, inputVars, matrix_file, pc, poolVars, outcome, runs, loads, builds,
                   cache_file, internet_file, health_file, data_file>>

\* etl_internet.process_quarter_file: the cache file of quarter file q afterwards
process_quarter_file(q, cache, matrix, file) ==
    IF Exists(cache) THEN cache
    ELSE IF ~Readable(matrix) \/ ~Readable(file) THEN cache
    ELSE CompleteTable(QuarterAggregate(file.rows, matrix.rows))

\* etl_internet.main: the cache files after the loop over the quarters
CachesAfter(caches, matrix, files) ==
    [q \in QuarterIds |->
        IF Exists(files[q]) THEN process_quarter_file(q, caches[q], matrix, files[q])
        ELSE caches[q]]

\* etl_internet.main: cache_files, the caches the loop collected
Collected(caches, files) == { q \in QuarterIds : Exists(files[q]) /\ Exists(caches[q]) }

\* etl_internet.main: the output file it leaves, the caches, and how it ends
internet_main(output_file, caches, matrix, files) ==
    IF ~Exists(matrix)
    THEN [file |-> output_file, caches |-> caches, result |-> "matrix_missing"]
    ELSE IF Exists(output_file)
    THEN [file |-> output_file, caches |-> caches,
          result |-> IF Readable(output_file) THEN "cached" ELSE "crash"]
    ELSE LET after == CachesAfter(caches, matrix, files)
             cache_files == Collected(after, files)
         IN  IF cache_files = {}
             THEN [file |-> output_file, caches |-> after, result |-> "no_data"]
             ELSE IF \E q \in cache_files : ~Readable(after[q])
             THEN [file |-> output_file, caches |-> after, result |-> "crash"]
             ELSE [file |-> CompleteTable(InternetTable([q \in cache_files |-> after[q].rows])),
                   caches |-> after, result |-> "ok"]

InternetETL ==
    /\ pc = "idle" /\ srcType = "quadkey"
    /\ LET r == internet_main(internet_file, cache_file, matrix_file, quarter_rows)
       IN  /\ internet_file' = r.file
           /\ cache_file' = r.caches
           /\ stage_result' = Result("internet", r.result)
    /\ UNCHANGED <<pipeVars, inputVars, matrix_file, pc, poolVars, outcome, runs, loads, builds,
                   pop_file, health_file, data_file>>

\* merge_datasets.main: the fused file it leaves and how it ends
merge_main(output_file, pop, health, internet, mode) ==
    IF ~Readable(pop) \/ ~Readable(health) \/ ~Readable(internet)
    THEN [file |-> output_file, result |-> "crash"]
    ELSE LET merged == merge_datasets(prepare_population_data(pop.rows),
                                      prepare_health_data(health.rows),
                                      prepare_internet_data(internet.rows))
         IN  IF merged = {}
             THEN [file |-> output_file, result |-> "crash"]
             ELSE [file |-> CompleteTable(save_output(filter_and_finalize(merged), mode)),
                   result |-> "ok"]

MergeMain ==
    /\ pc = "idle"
    /\ LET r == merge_main(data_file, pop_file, health_file, internet_file, round_mode)
       IN  /\ data_file' = r.file
           /\ stage_result' = Result("merge", r.result)
    /\ UNCHANGED <<pipeVars, inputVars, matrix_file, pc, poolVars, outcome, runs, loads, builds,
                   pop_file, cache_file, internet_file, health_file>>

(***************************************************************************)
(* The builder together with the stages that consume its matrix.           *)
(***************************************************************************)
\* the attribute rows of the GPKG in the builder's worlds: one per geometry
DefaultAttrs(data) ==
    [i \in 1..Len(data) |->
        [key |-> data[i].key, T |-> FromInt(1000 * i),
         M |-> IF i = 2 THEN FromInt(NODATA) ELSE FromInt(400 * i)]]

\* the quarter files in the builder's worlds: every quadkey in every file
DefaultQuarters(data) ==
    [q \in QuarterIds |->
        IF data = <<>> THEN Absent
        ELSE Complete([i \in 1..Len(data) |->
                [key |-> data[i].key,
                 avg_d_kbps |-> IF i = q THEN Null ELSE FromInt(100 * i + q),
                 tests |-> FromInt(i)]])]

NoQuarters == [q \in QuarterIds |-> Absent]

NoCaches == [q \in QuarterIds |-> AbsentTable]

\* tables left by earlier runs of the stages the world is not about
DefaultPopTable ==
    CompleteTable({ [h3_index |-> 1, T |-> Rat(3, 10), M |-> Zero, cell_count |-> 1],
                    [h3_index |-> 2, T |-> FromInt(1700), M |-> FromInt(400), cell_count |-> 2] })

DefaultHealthTable ==
    CompleteTable({ [h3_index |-> 1, accessibility_mean |-> Rat(25, 2)],
                    [h3_index |-> 2, accessibility_mean |-> FromInt(40)] })

DefaultInternetTable ==
    CompleteTable({ [h3_index |-> 2, fixed_download_2023 |-> FromInt(150),
                     fixed_download_total |-> Rat(301, 2)] })

Init ==
    /\ srcType \in {"grid", "quadkey"}
    /\ source_data \in GeomLists
    /\ attr_rows = IF srcType = "grid" THEN DefaultAttrs(source_data) ELSE <<>>
    /\ quarter_rows = IF srcType = "quadkey" THEN DefaultQuarters(source_data) ELSE NoQuarters
    /\ round_mode = "half_to_even"
    /\ matrix_file = Absent
    /\ InitBuilder
    /\ pop_file = IF srcType = "grid" THEN AbsentTable ELSE DefaultPopTable
    /\ cache_file = NoCaches
    /\ internet_file = IF srcType = "quadkey" THEN AbsentTable ELSE DefaultInternetTable
    /\ health_file = DefaultHealthTable
    /\ data_file = AbsentTable
    /\ stage_result = Result("none", "none")
    /\ NoPipeline

Next ==
    \/ MainCacheHit
    \/ MainReadError
    \/ MainNoData
    \/ MainStart
    \/ SequentialStep
    \/ \E b \in 1..MaxGeoms : b \in DOMAIN task /\ WorkerStart(b)
    \/ \E b \in 1..MaxGeoms : b \in DOMAIN task /\ WorkerFinish(b)
    \/ Collect
    \/ MainNoIntersections
    \/ MainWrite
    \/ AbortDuringWrite
    \/ AbortBeforeWrite
    \/ DeleteMatrix
    \/ PopulationETL
    \/ InternetETL
    \/ MergeMain

Spec == Init /\ [][Next]_vars

(***************************************************************************)
(* The aggregators on their own: the matrix is the one a completed builder *)
(* run left, the attribute tables range over the bounded inputs.           *)
(***************************************************************************)
\* the shapes of the aggregators' worlds
AggShapes ==
    Shapes \cup { [area |-> 10, inter |-> <<0, 5, 5, 0>>, bad |-> FALSE] }   \* 50% / 50%

\* main of a builder run to its end without interruption: the artifact it leaves
BuildMatrix(kind, data) ==
    LET df_matrix == process_batch(kind, data)
    IN  IF data = <<>> \/ df_matrix = <<>> THEN Absent
        ELSE Complete(Normalize(df_matrix))

\* values of a population column in the GPKG
PopValues == { FromInt(NODATA), Zero, FromInt(1000), FromInt(2000) }

\* the attribute rows of the GPKG: one per geometry
AttrLists(data) ==
    { [i \in 1..Len(data) |-> [key |-> data[i].key, T |-> f[i][1], M |-> f[i][2]]] :
        f \in [1..Len(data) -> PopValues \X { FromInt(NODATA), FromInt(400) }] }

\* what a quarter file may hold for one quadkey: no row, or a row of nullable values
QuarterChoices ==
    { [present |-> FALSE, avg_d_kbps |-> Null, tests |-> Null] } \cup
    { [present |-> TRUE, avg_d_kbps |-> a, tests |-> t] :
        a \in { Null, FromInt(100), FromInt(200) }, t \in { Null, FromInt(3) } }

RECURSIVE QuarterRowsOf(_, _, _)
QuarterRowsOf(data, f, i) ==
    IF i > Len(data) THEN <<>>
    ELSE (IF f[i].present
          THEN << [key |-> data[i].key, avg_d_kbps |-> f[i].avg_d_kbps, tests |-> f[i].tests] >>
          ELSE <<>>) \o QuarterRowsOf(data, f, i + 1)

\* the rows of one quarter file over the quadkeys of data
QuarterRowLists(data) ==
    { QuarterRowsOf(data, f, 1) : f \in [1..Len(data) -> QuarterChoices] }

InitAggregate ==
    /\ srcType \in {"grid", "quadkey"}
    /\ source_data \in GeomListsOf(AggShapes, MaxAggGeoms)
    /\ attr_rows \in IF srcType = "grid" THEN AttrLists(source_data) ELSE { <<>> }
    /\ quarter_rows \in
          IF srcType = "quadkey"
          THEN { [q \in QuarterIds |->
                    IF q = 1 THEN Complete(rows) ELSE DefaultQuarters(source_data)[q]] :
                 rows \in QuarterRowLists(source_data) }
          ELSE { NoQuarters }
    /\ round_mode = "half_to_even"
    /\ matrix_file = BuildMatrix(srcType, source_data)
    /\ InitBuilder
    /\ pop_file = IF srcType = "grid" THEN AbsentTable ELSE DefaultPopTable
    /\ cache_file = NoCaches
    /\ internet_file = IF srcType = "quadkey" THEN AbsentTable ELSE DefaultInternetTable
    /\ health_file = DefaultHealthTable
    /\ data_file = AbsentTable
    /\ stage_result = Result("none", "none")
    /\ NoPipeline

NextAggregate ==
    \/ PopulationETL
    \/ InternetETL

SpecAggregate == InitAggregate /\ [][NextAggregate]_vars

(***************************************************************************)
(* The fuser on its own: the three per-cell tables range over the rows the *)
(* aggregators can leave.                                                  *)
(***************************************************************************)
FuseCells == 1..MaxFuseCells

\* what etl_population may have left for one cell: no row, or a row whose total is 0
\* (every source null), a fraction of a source, or a sum of sources
PopOptions ==
    { [present |-> FALSE, T |-> Zero] } \cup
    { [present |-> TRUE, T |-> t] : t \in { Zero, Rat(3, 10), Rat(1, 2), FromInt(1700) } }

PopTables ==
    { { [h3_index |-> c, T |-> f[c].T, M |-> Rat(1, 4), cell_count |-> 1] :
          c \in { x \in FuseCells : f[x].present } } :
      f \in [FuseCells -> PopOptions] }

\* what etl_health may have left: per cell no row, or the mean of its pixels
HealthTables ==
    { { [h3_index |-> c, accessibility_mean |-> Rat(2513, 200), pixel_count |-> 4] :
          c \in S } : S \in SUBSET FuseCells }

\* what etl_internet may have left for one cell: no row, or a row whose 2023 rollup is
\* null or a mean
InternetOptions ==
    { [present |-> FALSE, v |-> Null] } \cup
    { [present |-> TRUE, v |-> v] : v \in { Null, Rat(1001, 8) } }

InternetTables ==
    { { [h3_index |-> c, h3_resolution |-> 8, fixed_download_2023 |-> f[c].v,
         fixed_download_total |-> Rat(1001, 8)] :
          c \in { x \in FuseCells : f[x].present } } :
      f \in [FuseCells -> InternetOptions] }

InitFuse ==
    /\ srcType = "grid"
    /\ source_data = <<>>
    /\ attr_rows = <<>>
    /\ quarter_rows = NoQuarters
    /\ round_mode \in {"half_to_even", "half_away_from_zero"}
    /\ matrix_file = Absent
    /\ InitBuilder
    /\ pop_file \in { CompleteTable(t) : t \in PopTables }
    /\ cache_file = NoCaches
    /\ internet_file \in { CompleteTable(t) : t \in InternetTables }
    /\ health_file \in { CompleteTable(t) : t \in HealthTables }
    /\ data_file = AbsentTable
    /\ stage_result = Result("none", "none")
    /\ NoPipeline

NextFuse == MergeMain

SpecFuse == InitFuse /\ [][NextFuse]_vars

(***************************************************************************)
(* Properties of the weight-matrix builders.                               *)
(***************************************************************************)
\* the rows of the matrix file of one source key
RowsOfKey(k) == { r \in RowSet(matrix_file.rows) : r.key = k }

\* no candidate cell of g keeps an entry: every raw weight is at most the threshold
NoRetainedOverlap(g) ==
    \/ g.bad
    \/ g.area <= 0
    \/ \A off \in (-K_RING_SIZE)..K_RING_SIZE :
          IntersectionArea(g, CellAt(g.center, off)) * THRESHOLD_DEN <= g.area

\* C1: in every matrix a builder has written, the weights of each source key that
\* has an entry sum to exactly 1, and a source geometry without retained overlap
\* has no entry.
C1_WeightsSumToOne ==
    Readable(matrix_file) =>
        /\ \A k \in { r.key : r \in RowSet(matrix_file.rows) } :
              SumF(RowsOfKey(k), [r \in RowsOfKey(k) |-> r.weight]) = One
        /\ \A i \in 1..Len(source_data) :
              NoRetainedOverlap(source_data[i]) => RowsOfKey(source_data[i].key) = {}

\* C1 witness: a written matrix in which one key has several entries, one key's raw
\* weights summed to less than 1, and one source geometry has no entry
C1_Witness ==
    /\ Readable(matrix_file)
    /\ \E k \in KeysOf(source_data) : Cardinality(RowsOfKey(k)) = 3
    /\ \E i \in 1..Len(source_data) :
          /\ source_data[i].area = 1000
          /\ Cardinality(RowsOfKey(source_data[i].key)) = 1
    /\ \E k \in KeysOf(source_data) : RowsOfKey(k) = {}

\* C8: a builder run that starts on an artifact left by an aborted write never
\* returns as a cache hit: it ends on the reader's error and leaves the artifact as
\* it is; a run that starts without an artifact loads the input and builds.
C8_AbortedWriteNeverCacheHit ==
    [][ runs' = runs + 1 =>
          /\ matrix_file.state = "partial" =>
                outcome' = "read_error" /\ matrix_file' = matrix_file
          /\ outcome' = "cache_hit" => matrix_file.state = "complete"
          /\ matrix_file.state = "absent" => loads' = loads + 1 ]_vars

\* C8 witness: a run has ended on the read error of an artifact an aborted write left
C8_Witness ==
    /\ outcome = "read_error"
    /\ matrix_file = Partial
    /\ runs = 2

\* C9: while the artifact exists, no step changes it except the operator's deletion:
\* a builder run then loads nothing, computes nothing and writes nothing, and the
\* consumer stages leave it alone.
C9_ArtifactReadOnly ==
    [][ Exists(matrix_file) =>
          \/ /\ matrix_file' = matrix_file
             /\ loads' = loads
             /\ pc' = "idle"
             /\ UNCHANGED poolVars
          \/ DeleteMatrix ]_vars

\* C9 witness: the artifact exists, a builder re-run took it as it is and a consumer
\* stage has used it
C9_Witness ==
    /\ Readable(matrix_file)
    /\ outcome = "cache_hit"
    /\ loads = 1
    /\ stage_result.result = "ok"
    /\ stage_result.stage \in {"population", "internet"}

\* C10: all from-scratch builds on the same input write the same set of
\* (key, h3_index, weight) rows, whatever MAX_WORKERS was and in whatever order the
\* batches finished.
C10_BuildsAgree ==
    \A i, j \in DOMAIN builds : builds[i].rows = builds[j].rows

\* C10 witness: two builds of several batches, one sequential, one by a pool whose
\* second batch finished first
C10_Witness ==
    /\ Len(builds) = 2
    /\ builds[1].workers = 1
    /\ builds[2].workers = 2
    /\ builds[2].order = <<2, 1>>
    /\ Cardinality(builds[2].rows) >= 3

(***************************************************************************)
(* Properties of the weighted aggregators, under SpecAggregate.            *)
(***************************************************************************)
\* the source keys with an entry in the matrix
MatrixKeys == { r.key : r \in RowSet(matrix_file.rows) }

\* the sum of column col over the rows of df whose key is in the matrix, nulls aside
SourceTotal(df, col) ==
    LET idx == { i \in 1..Len(df) : df[i].key \in MatrixKeys /\ ~IsNull(df[i][col]) }
    IN  SumF(idx, [i \in idx |-> df[i][col]])

\* the sum of column col over the rows of an aggregated table
OutputTotal(rows, col) == SumF(rows, [r \in rows |-> r[col]])

\* the rows of df joined to cell c whose value for col is not null
Contributors(df, c, col) ==
    { j \in InnerJoin(df, matrix_file.rows) : j.h3_index = c /\ ~IsNull(j.val[col]) }

\* C2: for every additive column (T, M of the population grid; tests of a quarter
\* file) the sum of the aggregated value over all output hex cells equals the sum of
\* the original value over the source geometries present in the weight matrix.
C2_AdditiveConserved ==
    /\ (srcType = "grid" /\ stage_result = Result("population", "ok")) =>
          \A col \in {"T", "M"} :
             OutputTotal(pop_file.rows, col) = SourceTotal(gdf_clean(attr_rows), col)
    /\ (srcType = "quadkey" /\ stage_result.stage = "internet") =>
          \A q \in QuarterIds :
             (Readable(cache_file[q]) /\ Readable(quarter_rows[q])) =>
                OutputTotal(cache_file[q].rows, "tests")
                   = SourceTotal(quarter_rows[q].rows, "tests")

\* a census cell split over two hexes is aggregated next to one that is not in the
\* matrix and whose population is therefore not counted
C2_Witness ==
    /\ srcType = "grid" /\ stage_result = Result("population", "ok")
    /\ Cardinality(pop_file.rows) = 2
    /\ \E i \in 1..Len(attr_rows) :
          /\ attr_rows[i].key \notin MatrixKeys
          /\ attr_rows[i].T = FromInt(2000)
    /\ OutputTotal(pop_file.rows, "T") = FromInt(1000)
    /\ \A r \in pop_file.rows : r.T # FromInt(1000)

\* C3: for the intensive column avg_d_kbps and every hex cell of a quarter's cache,
\* the aggregate equals sum(value*weight)/sum(weight) taken over the joined rows whose
\* value is not null, so that a joined row with a null value does not move the mean.
C3_MeanOverNonNullRows ==
    (srcType = "quadkey" /\ stage_result.stage = "internet") =>
       \A q \in QuarterIds :
          (Readable(cache_file[q]) /\ Readable(quarter_rows[q])) =>
             \A r \in cache_file[q].rows :
                LET nn == Contributors(quarter_rows[q].rows, r.h3_index, "avg_d_kbps")
                IN  nn # {} =>
                       r.avg_d_kbps =
                          RatDiv(SumF(nn, [j \in nn |-> RatMul(j.val.avg_d_kbps, j.weight)]),
                                 SumF(nn, [j \in nn |-> j.weight]))

\* C4: in every aggregated table, a hex cell none of whose joined source rows has a
\* non-null value for a column has null in that column, never 0.
C4_NoContributorGivesNull ==
    /\ (srcType = "grid" /\ stage_result = Result("population", "ok")) =>
          \A r \in pop_file.rows : \A col \in {"T", "M"} :
             Contributors(gdf_clean(attr_rows), r.h3_index, col) = {} => IsNull(r[col])
    /\ (srcType = "quadkey" /\ stage_result.stage = "internet") =>
          \A q \in QuarterIds :
             (Readable(cache_file[q]) /\ Readable(quarter_rows[q])) =>
                \A r \in cache_file[q].rows : \A col \in {"avg_d_kbps", "tests"} :
                   Contributors(quarter_rows[q].rows, r.h3_index, col) = {} => IsNull(r[col])

(***************************************************************************)
(* Properties of the fuser, under SpecFuse.                                *)
(***************************************************************************)
CellsOf(rows) == { r.h3_index : r \in rows }

\* C5: a cell that is in the population table (and possibly the internet table) but
\* not in the health table never appears in the fused output.
C5_HealthlessCellExcluded ==
    stage_result.stage = "merge" =>
       \A c \in CellsOf(pop_file.rows) \ CellsOf(health_file.rows) :
          Readable(data_file) => c \notin CellsOf(data_file.rows)

\* the fuser wrote a cell it has health data for and dropped a populated one, with
\* internet data, that it has none for
C5_Witness ==
    /\ stage_result = Result("merge", "ok")
    /\ data_file.rows # {}
    /\ \E c \in (CellsOf(pop_file.rows) \cap CellsOf(internet_file.rows))
                   \ CellsOf(health_file.rows) :
          /\ \E p \in pop_file.rows : p.h3_index = c /\ p.T = FromInt(1700)
          /\ c \notin CellsOf(data_file.rows)

\* C6: a cell in the population table with total population > 0 and in the health
\* table, but not in the internet table, is in the fused output with every internet
\* column null.
C6_InternetlessCellKept ==
    stage_result.stage = "merge" =>
       \A c \in CellsOf(health_file.rows) \ CellsOf(internet_file.rows) :
          (\E p \in pop_file.rows : p.h3_index = c /\ RatLt(Zero, p.T)) =>
             /\ stage_result.result = "ok"
             /\ \E r \in data_file.rows :
                   /\ r.h3_index = c
                   /\ \A col \in AggregatedCols :
                         (\E i \in internet_file.rows : col \in DOMAIN i) =>
                            (col \in DOMAIN r /\ IsNull(r[col]))

\* the fuser kept a cell without internet data next to one with internet values
C6_Witness ==
    /\ stage_result = Result("merge", "ok")
    /\ internet_file.rows # {}
    /\ \E c \in CellsOf(data_file.rows) \ CellsOf(internet_file.rows) :
          \E r \in data_file.rows :
             /\ r.h3_index = c
             /\ IsNull(r.fixed_download_2023) /\ IsNull(r.fixed_download_total)
    /\ \E r \in data_file.rows : ~IsNull(r.fixed_download_total)

\* C7: every row of the persisted fused dataset has total population > 0 and a
\* non-null healthcare distance.
C7_PersistedRowsPopulated ==
    (stage_result = Result("merge", "ok") /\ Readable(data_file)) =>
       \A r \in data_file.rows :
          /\ ~IsNull(r.pop_total) /\ RatLt(Zero, r.pop_total)
          /\ ~IsNull(r.health_distance)

(***************************************************************************)
(* What the builders report, and how they treat geometries they skip.      *)
(***************************************************************************)
\* main: the "Matrix statistics" it prints, the only counts a build reports
MatrixStatistics(rows) ==
    [total_mappings |-> Cardinality(rows),
     unique_source_keys |-> Cardinality({ r.key : r \in rows }),
     unique_h3_cells |-> Cardinality({ r.h3_index : r \in rows })]

\* the geometries process_*_batch leaves by continue: the transformation raised, or
\* the area is not positive
SkippedGeoms(data) == { g \in RowSet(data) : g.bad \/ g.area <= 0 }

\* C11: a geometry that fails to reproject or has non-positive area is skipped and
\* counted in a skipped-geometry count the build reports, and the other geometries
\* of its batch still get their entries.
C11_SkippedCountedBatchGoesOn ==
    \A i \in DOMAIN builds :
       LET stats == MatrixStatistics(builds[i].rows)
       IN  /\ \A g \in RowSet(source_data) \ SkippedGeoms(source_data) :
                 ~NoRetainedOverlap(g) => \E r \in builds[i].rows : r.key = g.key
           /\ \A g \in SkippedGeoms(source_data) :
                 \A r \in builds[i].rows : r.key # g.key
           /\ "skipped" \in DOMAIN stats
           /\ stats.skipped = Cardinality(SkippedGeoms(source_data))

(***************************************************************************)
(* run_pipeline: the six scripts run one after the other as subprocesses,  *)
(* each to its end, on the files of fs.                                    *)
(***************************************************************************)
\* SCRIPTS with the aggregators ahead of the matrix builders
SCRIPTS_EtlFirst ==
    << "population", "health", "internet", "grid_matrix", "quadkey_matrix", "merge" >>

\* the scripts in the order main runs them
SCRIPTS == << "grid_matrix", "quadkey_matrix", "population", "health", "internet", "merge" >>

\* the geometries of the pipeline's worlds
PipeShapes ==
    { [area |-> 10, inter |-> <<0, 0, 7, 3>>, bad |-> FALSE],
      [area |-> 0, inter |-> <<0, 0, 0, 0>>, bad |-> FALSE] }

\* a builder's main run to its end: the matrix file it leaves and how it ended
matrix_main(kind, file, data) ==
    IF Exists(file)
    THEN [file |-> file, result |-> IF Readable(file) THEN "cache_hit" ELSE "read_error"]
    ELSE IF data = <<>>
    THEN [file |-> file, result |-> "no_data"]
    ELSE IF process_batch(kind, data) = <<>>
    THEN [file |-> file, result |-> "no_intersections"]
    ELSE [file |-> BuildMatrix(kind, data), result |-> "built"]

\* etl_population.main: extract_census_data, then convert_to_h3_matrix
population_main(zip, gpkg, output_file, matrix, gdf) ==
    IF ~zip
    THEN [file |-> output_file, gpkg |-> gpkg, result |-> "extraction_failed"]
    ELSE LET r == convert_to_h3_matrix(output_file, matrix, gdf)
         IN  [file |-> r.file, gpkg |-> TRUE, result |-> r.result]

\* etl_health.main without the test of OUTPUT_FILE.exists(): every run aggregates
health_always(output_file, raster) ==
    IF ~raster
    THEN [file |-> output_file, result |-> "crash"]
    ELSE [file |-> DefaultHealthTable, result |-> "ok"]

\* etl_health.main: the raster aggregated per hex
health_main(output_file, raster) ==
    IF Exists(output_file)
    THEN [file |-> output_file,
          result |-> IF Readable(output_file) THEN "cached" ELSE "crash"]
    ELSE IF ~raster
    THEN [file |-> output_file, result |-> "crash"]
    ELSE [file |-> DefaultHealthTable, result |-> "ok"]

\* the exit status of a script: non-zero only when an exception leaves main
ReturnCode(result) == IF result \in {"crash", "read_error"} THEN 1 ELSE 0

\* a script ended on a missing input, a missing matrix, an input it cannot process
\* or an empty result
StructuralFailure(result) ==
    result \in {"read_error", "no_data", "no_intersections", "extraction_failed",
                "matrix_missing", "exception", "crash"}

\* the files after script n, and how the script ended
ScriptEffect(n, f) ==
    CASE SCRIPTS[n] = "grid_matrix" ->
            LET r == matrix_main("grid", f.grid_matrix, IF f.gpkg THEN f.census ELSE <<>>)
            IN  [files |-> [f EXCEPT !.grid_matrix = r.file], result |-> r.result]
      [] SCRIPTS[n] = "quadkey_matrix" ->
            LET r == matrix_main("quadkey", f.quadkey_matrix, f.quadkeys)
            IN  [files |-> [f EXCEPT !.quadkey_matrix = r.file], result |-> r.result]
      [] SCRIPTS[n] = "population" ->
            LET r == population_main(f.zip, f.gpkg, f.pop, f.grid_matrix,
                                     DefaultAttrs(f.census))
            IN  [files |-> [f EXCEPT !.pop = r.file, !.gpkg = r.gpkg], result |-> r.result]
      [] SCRIPTS[n] = "health" ->
            LET r == health_main(f.health, f.raster)
            IN  [files |-> [f EXCEPT !.health = r.file], result |-> r.result]
      [] SCRIPTS[n] = "internet" ->
            LET r == internet_main(f.internet, f.caches, f.quadkey_matrix,
                                   DefaultQuarters(f.quadkeys))
            IN  [files |-> [f EXCEPT !.internet = r.file, !.caches = r.caches],
                 result |-> r.result]
      [] SCRIPTS[n] = "merge" ->
            LET r == merge_main(f.data, f.pop, f.health, f.internet, round_mode)
            IN  [files |-> [f EXCEPT !.data = r.file], result |-> r.result]

\* main: the next run_script; a non-zero return code ends the run by sys.exit(1)
RunScript ==
    /\ pipeline.status = "running"
    /\ LET n == Len(pipeline.log) + 1
           e == ScriptEffect(n, fs)
           rc == ReturnCode(e.result)
       IN  /\ fs' = e.files
           /\ pipeline' =
                 [status |-> IF rc # 0 THEN "failed"
                             ELSE IF n = Len(SCRIPTS) THEN "completed" ELSE "running",
                  log |-> Append(pipeline.log,
                                 [script |-> SCRIPTS[n], result |-> e.result,
                                  returncode |-> rc])]
    /\ UNCHANGED <<inputVars, matrix_file, pc, poolVars, outcome, runs, loads, builds,
                   tableVars, stage_result, analysis>>

InitPipeline ==
    /\ srcType = "grid"
    /\ source_data = <<>>
    /\ attr_rows = <<>>
    /\ quarter_rows = NoQuarters
    /\ round_mode = "half_to_even"
    /\ matrix_file = Absent
    /\ InitBuilder
    /\ pop_file = AbsentTable
    /\ cache_file = NoCaches
    /\ internet_file = AbsentTable
    /\ health_file = AbsentTable
    /\ data_file = AbsentTable
    /\ stage_result = Result("none", "none")
    /\ pipeline = [status |-> "running", log |-> <<>>]
    /\ analysis = NoAnalysis
    /\ fs \in { [zip |-> z, gpkg |-> g, census |-> c, quadkeys |-> q, raster |-> r,
                 grid_matrix |-> Absent, quadkey_matrix |-> Absent, pop |-> AbsentTable,
                 health |-> AbsentTable, caches |-> NoCaches, internet |-> AbsentTable,
                 data |-> AbsentTable] :
               z \in BOOLEAN, g \in BOOLEAN, r \in BOOLEAN,
               c \in GeomListsOf(PipeShapes, MaxGeoms) \ {<<>>},
               q \in GeomListsOf(PipeShapes, MaxGeoms) }

NextPipeline == RunScript

SpecPipeline == InitPipeline /\ [][NextPipeline]_vars

\* C12: when a script of a pipeline run meets a structural failure (a missing input
\* file, a missing matrix, an input it cannot process, an empty result), the failure
\* reaches the orchestrator as a non-zero return code, the run is failed and no later
\* script is executed.
C12_StructuralFailureAborts ==
    \A i \in DOMAIN pipeline.log :
       StructuralFailure(pipeline.log[i].result) =>
          /\ pipeline.log[i].returncode # 0
          /\ i = Len(pipeline.log)
          /\ pipeline.status = "failed"

(***************************************************************************)
(* The consumer stages when a run may be killed while it writes.  Every    *)
(* stage writes with write_parquet straight to its final path.             *)
(***************************************************************************)
\* etl_population killed inside h3_agg.write_parquet(output_file)
PopulationETLKilled ==
    /\ pc = "idle" /\ srcType = "grid"
    /\ convert_to_h3_matrix(pop_file, matrix_file, attr_rows).result = "ok"
    /\ pop_file' = PartialTable
    /\ stage_result' = Result("population", "killed")
    /\ UNCHANGED <<pipeVars, inputVars, matrix_file, pc, poolVars, outcome, runs, loads,
                   builds, cache_file, internet_file, health_file, data_file>>

\* the quarter files whose cache a run of etl_internet.main would write
CachesToWrite(caches, matrix, files) ==
    { q \in QuarterIds : /\ Exists(files[q]) /\ ~Exists(caches[q])
                         /\ Readable(matrix) /\ Readable(files[q]) }

\* etl_internet killed inside h3_agg_collected.write_parquet(cache_file) of quarter
\* file q: the caches of the files before q are written, q's is cut off
InternetETLKilledInCache(q) ==
    /\ pc = "idle" /\ srcType = "quadkey"
    /\ Exists(matrix_file) /\ ~Exists(internet_file)
    /\ q \in CachesToWrite(cache_file, matrix_file, quarter_rows)
    /\ cache_file' =
          [x \in QuarterIds |->
              IF x < q THEN CachesAfter(cache_file, matrix_file, quarter_rows)[x]
              ELSE IF x = q THEN PartialTable ELSE cache_file[x]]
    /\ stage_result' = Result("internet", "killed")
    /\ UNCHANGED <<pipeVars, inputVars, matrix_file, pc, poolVars, outcome, runs, loads,
                   builds, pop_file, internet_file, health_file, data_file>>

\* etl_internet killed inside result.write_parquet(OUTPUT_FILE)
InternetETLKilledInOutput ==
    /\ pc = "idle" /\ srcType = "quadkey"
    /\ LET r == internet_main(internet_file, cache_file, matrix_file, quarter_rows)
       IN  /\ r.result = "ok"
           /\ cache_file' = r.caches
    /\ internet_file' = PartialTable
    /\ stage_result' = Result("internet", "killed")
    /\ UNCHANGED <<pipeVars, inputVars, matrix_file, pc, poolVars, outcome, runs, loads,
                   builds, pop_file, health_file, data_file>>

\* merge_datasets killed inside df.write_parquet(OUTPUT_FILE)
MergeKilled ==
    /\ pc = "idle"
    /\ merge_main(data_file, pop_file, health_file, internet_file, round_mode).result = "ok"
    /\ data_file' = PartialTable
    /\ stage_result' = Result("merge", "killed")
    /\ UNCHANGED <<pipeVars, inputVars, matrix_file, pc, poolVars, outcome, runs, loads,
                   builds, pop_file, cache_file, internet_file, health_file>>

NextInterrupt ==
    \/ PopulationETL
    \/ PopulationETLKilled
    \/ InternetETL
    \/ \E q \in QuarterIds : InternetETLKilledInCache(q)
    \/ InternetETLKilledInOutput
    \/ MergeMain
    \/ MergeKilled

SpecInterrupt == InitAggregate /\ [][NextInterrupt]_vars

\* C13: a stage that was interrupted part-way leaves nothing at its final path that
\* a later run takes for complete: after a run of the stage that was not itself
\* interrupted (the retry), with the stage's inputs readable, the stage's outputs are
\* complete files, recomputed where a cut-off file stood.
C13_RetryRecomputes ==
    /\ (stage_result.stage = "population" /\ stage_result.result # "killed"
        /\ Readable(matrix_file)) => Readable(pop_file)
    /\ (stage_result.stage = "internet" /\ stage_result.result # "killed"
        /\ Readable(matrix_file)) =>
          /\ \A q \in QuarterIds : Readable(quarter_rows[q]) => Readable(cache_file[q])
          /\ (\E q \in QuarterIds : Readable(quarter_rows[q])) => Readable(internet_file)
    /\ (stage_result.stage = "merge" /\ stage_result.result # "killed"
        /\ Readable(pop_file) /\ Readable(health_file) /\ Readable(internet_file)
        /\ merge_datasets(prepare_population_data(pop_file.rows),
                          prepare_health_data(health_file.rows),
                          prepare_internet_data(internet_file.rows)) # {})
          => Readable(data_file)

(***************************************************************************)
(* Properties of the entries of a written matrix, under Spec.              *)
(***************************************************************************)
\* intersection area / source area of geometry g and cell c
RawWeight(g, c) == Rat(IntersectionArea(g, c), g.area)

\* the candidate cells of g whose raw weight is above the threshold
RetainedCells(g) ==
    { c \in RowSet(grid_disk(g.center, K_RING_SIZE)) :
        RatLt(Rat(1, THRESHOLD_DEN), RawWeight(g, c)) }

\* C14: no entry with a raw weight (intersection area / source area) of 0.1% or less
\* is in the matrix, and the entries are dropped before the normalization: an entry's
\* weight is its raw weight divided by the sum of the raw weights of the retained
\* entries of its source key.
C14_ThresholdBeforeNormalization ==
    Readable(matrix_file) =>
       \A r \in RowSet(matrix_file.rows) :
          \E i \in 1..Len(source_data) :
             LET g == source_data[i]
             IN  /\ g.key = r.key
                 /\ g.area > 0
                 /\ RatLt(Rat(1, THRESHOLD_DEN), RawWeight(g, r.h3_index))
                 /\ r.weight =
                       RatDiv(RawWeight(g, r.h3_index),
                              SumF(RetainedCells(g),
                                   [c \in RetainedCells(g) |-> RawWeight(g, c)]))

\* a geometry with an overlap of exactly 0.1% of its area: the overlap has no entry
\* and the other entry, of raw weight 0.999, is written with weight 1
C14_Witness ==
    /\ Readable(matrix_file)
    /\ \E i \in 1..Len(source_data) :
          LET g == source_data[i]
          IN  /\ g.area = 1000
              /\ \E c \in Cells : RawWeight(g, c) = Rat(1, 1000) /\
                    \A r \in RowsOfKey(g.key) : r.h3_index # c
              /\ \E r \in RowsOfKey(g.key) :
                    RawWeight(g, r.h3_index) = Rat(999, 1000) /\ r.weight = One

\* C15: every entry of a written matrix has a weight greater than 0 and at most 1.
C15_WeightInUnitInterval ==
    Readable(matrix_file) =>
       \A r \in RowSet(matrix_file.rows) : RatLt(Zero, r.weight) /\ RatLe(r.weight, One)

\* a matrix with an entry of weight 1 and entries that are thirds of a geometry wider
\* than its candidate cells
C15_Witness ==
    /\ Readable(matrix_file)
    /\ \E r \in RowSet(matrix_file.rows) : r.weight = One
    /\ \E r \in RowSet(matrix_file.rows) : r.weight = Rat(1, 3)

(***************************************************************************)
(* The aggregators given a matrix of another resolution.  An H3 index      *)
(* carries its resolution; the cells above NumCells are the resolution-7   *)
(* parents of the cells 1..NumCells, two children each on the ring.        *)
(***************************************************************************)
\* h3.cell_to_parent(c, H3_RES - 1)
cell_to_parent(c) == NumCells + ((c + 1) \div 2)

\* h3.get_resolution(c)
get_resolution(c) == IF c \in Cells THEN H3_RES ELSE H3_RES - 1

\* a set of rows in some order
RECURSIVE SeqOfSet(_)
SeqOfSet(S) ==
    IF S = {} THEN <<>>
    ELSE LET x == CHOOSE y \in S : TRUE IN <<x>> \o SeqOfSet(S \ {x})

\* the matrix a builder set to H3_RES - 1 leaves for the geometries of rows: an
\* entry per key and parent cell, weighted by the key's share in the parent
CoarseRows(rows) ==
    LET pairs == { <<rows[a].key, cell_to_parent(rows[a].h3_index)>> : a \in 1..Len(rows) }
        share(p) == { a \in 1..Len(rows) :
                        rows[a].key = p[1] /\ cell_to_parent(rows[a].h3_index) = p[2] }
    IN  SeqOfSet({ [key |-> p[1], h3_index |-> p[2],
                    weight |-> SumF(share(p), [a \in share(p) |-> rows[a].weight])] :
                   p \in pairs })

CoarseMatrix(file) ==
    IF Readable(file) THEN Complete(CoarseRows(file.rows)) ELSE file

\* the resolutions of the cells of a matrix file
MatrixResolutions(file) == { get_resolution(r.h3_index) : r \in RowSet(file.rows) }

InitResolution ==
    /\ srcType \in {"grid", "quadkey"}
    /\ source_data \in GeomListsOf(AggShapes, MaxAggGeoms)
    /\ attr_rows \in IF srcType = "grid" THEN AttrLists(source_data) ELSE { <<>> }
    /\ quarter_rows \in
          IF srcType = "quadkey"
          THEN { [q \in QuarterIds |->
                    IF q = 1 THEN Complete(rows) ELSE DefaultQuarters(source_data)[q]] :
                 rows \in QuarterRowLists(source_data) }
          ELSE { NoQuarters }
    /\ round_mode = "half_to_even"
    /\ matrix_file \in { BuildMatrix(srcType, source_data),
                         CoarseMatrix(BuildMatrix(srcType, source_data)) }
    /\ InitBuilder
    /\ pop_file = AbsentTable
    /\ cache_file = NoCaches
    /\ internet_file = AbsentTable
    /\ health_file = DefaultHealthTable
    /\ data_file = AbsentTable
    /\ stage_result = Result("none", "none")
    /\ NoPipeline

SpecResolution == InitResolution /\ [][NextAggregate]_vars

\* C16: an aggregator checks that the matrix was built at the resolution it expects;
\* given a matrix of another resolution it ends with ResolutionMismatch and writes no
\* per-cell output.
C16_ResolutionVerified ==
    (stage_result.stage \in {"population", "internet"} /\ Readable(matrix_file)
     /\ MatrixResolutions(matrix_file) # {H3_RESOLUTION}) =>
        /\ stage_result.result = "ResolutionMismatch"
        /\ ~Exists(pop_file)
        /\ ~Exists(internet_file)
        /\ \A q \in QuarterIds : ~Exists(cache_file[q])

(***************************************************************************)
(* Properties of the population aggregator, under SpecAggregate.           *)
(***************************************************************************)
\* the rows of the GPKG joined to cell c whose value for col is not the sentinel
RealContributors(c, col) ==
    { j \in InnerJoin(attr_rows, matrix_file.rows) :
        j.h3_index = c /\ j.val[col] # FromInt(NODATA) }

\* C17: a source value equal to the no-data sentinel -9999 is null before the
\* weighted aggregation and enters no cell aggregate as a number, neither as -9999
\* nor as zero: a cell's aggregate is the weighted sum of the values that are not the
\* sentinel, and null when every value joined to the cell is the sentinel.
C17_SentinelNeverANumber ==
    (srcType = "grid" /\ stage_result = Result("population", "ok")) =>
       \A r \in pop_file.rows : \A col \in {"T", "M"} :
          LET real == RealContributors(r.h3_index, col)
          IN  IF real = {} THEN IsNull(r[col])
              ELSE r[col] = SumF(real, [j \in real |-> RatMul(j.val[col], j.weight)])

\* the shapes of the worked example: A split 70% / 30%, B split 50% / 50%
IsCellA(g) == g.area = 10 /\ g.inter = <<0, 0, 7, 3>> /\ ~g.bad

IsCellB(g) == g.area = 10 /\ g.inter = <<0, 5, 5, 0>> /\ ~g.bad

\* the worked example is the input: A with population 1000, B with population 2000
ExampleInput ==
    /\ srcType = "grid" /\ Len(source_data) = 2
    /\ \E a, b \in 1..2 :
          /\ IsCellA(source_data[a]) /\ attr_rows[a].T = FromInt(1000)
          /\ IsCellB(source_data[b]) /\ attr_rows[b].T = FromInt(2000)

\* the contributions of the worked example as <<geometry, hex cell, people>>
ExampleContributions ==
    UNION { IF IsCellA(source_data[i])
            THEN { <<i, CellAt(source_data[i].center, 0), 700>>,
                   <<i, CellAt(source_data[i].center, 1), 300>> }
            ELSE { <<i, CellAt(source_data[i].center, -1), 1000>>,
                   <<i, CellAt(source_data[i].center, 0), 1000>> } :
            i \in 1..Len(source_data) }

\* C18: with grid cells A (population 1000, 0.7 / 0.3 on two hexes) and B (population
\* 2000, 0.5 / 0.5 on two hexes), every hex's aggregated population is the sum of
\* the contributions 700, 300, 1000, 1000 that fall on it, and the total is 3000.
C18_WorkedExample ==
    (ExampleInput /\ stage_result = Result("population", "ok")) =>
       /\ \A c \in Cells :
             LET on == { x \in ExampleContributions : x[2] = c }
             IN  IF on = {} THEN c \notin { r.h3_index : r \in pop_file.rows }
                 ELSE \E r \in pop_file.rows :
                         /\ r.h3_index = c
                         /\ r.T = SumF(on, [x \in on |-> FromInt(x[3])])
       /\ OutputTotal(pop_file.rows, "T") = FromInt(3000)

\* the example with A and B on the same two hexes: 700 + 1000 and 300 + 1000
C18_Witness ==
    /\ ExampleInput /\ stage_result = Result("population", "ok")
    /\ { r.T : r \in pop_file.rows } = { FromInt(1700), FromInt(1300) }
    /\ \A r \in pop_file.rows : r.cell_count = 2

(***************************************************************************)
(* The order of filtering and rounding in the fuser, under SpecFuse.       *)
(***************************************************************************)
\* the cells the fuser keeps, judged on the tables as read, before any rounding
KeptCells ==
    { c \in CellsOf(health_file.rows) :
        \E p \in pop_file.rows : p.h3_index = c /\ RatLt(Zero, p.T) }

\* C19: in the fuser, rounding is the last transformation before the write: the
\* joins and the filter see the values as read, so the cells written are those whose
\* population as read is above 0, and what is written is that value rounded.
C19_RoundingLast ==
    stage_result.stage = "merge" =>
       (KeptCells # {} =>
          /\ stage_result.result = "ok"
          /\ CellsOf(data_file.rows) = KeptCells
          /\ \A r \in data_file.rows : \E p \in pop_file.rows :
                /\ p.h3_index = r.h3_index
                /\ r.pop_total = FromInt(Round0(p.T, round_mode))
                /\ r.pop_male = FromInt(Round0(p.M, round_mode)))

\* a cell with a population of 0.3 passed the filter and is written with 0
C19_Witness ==
    /\ stage_result = Result("merge", "ok")
    /\ \E r \in data_file.rows : \E p \in pop_file.rows :
          /\ p.h3_index = r.h3_index
          /\ p.T = Rat(3, 10)
          /\ r.pop_total = Zero

(***************************************************************************)
(* What the population aggregator reports about the rows it could not map. *)
(***************************************************************************)
\* convert_to_h3_matrix: what it prints about a run
PopulationStatistics(joined, h3_agg) ==
    [joined_rows |-> Cardinality(joined),
     hexagons |-> Cardinality(h3_agg),
     total_population |-> OutputTotal(h3_agg, "T"),
     cells_per_hexagon |->
        IF h3_agg = {} THEN Null
        ELSE RatDiv(SumF(h3_agg, [r \in h3_agg |-> FromInt(r.cell_count)]),
                    FromInt(Cardinality(h3_agg)))]

\* the sum of column col over all rows of df, nulls aside
AllSourceTotal(df, col) ==
    LET idx == { i \in 1..Len(df) : ~IsNull(df[i][col]) }
    IN  SumF(idx, [i \in idx |-> df[i][col]])

\* C20: attribute rows whose source key has no entry in the matrix raise no
\* exception, and the aggregator reports a coverage statistic: the fraction of the
\* attribute mass whose source key was found in the matrix.
C20_CoverageReported ==
    (srcType = "grid" /\ stage_result.stage = "population" /\ Readable(matrix_file)
     /\ RatLt(Zero, AllSourceTotal(gdf_clean(attr_rows), "T"))) =>
        LET stats == PopulationStatistics(InnerJoin(gdf_clean(attr_rows), matrix_file.rows),
                                          pop_file.rows)
        IN  /\ stage_result.result = "ok"
            /\ "coverage" \in DOMAIN stats
            /\ stats.coverage = RatDiv(SourceTotal(gdf_clean(attr_rows), "T"),
                                       AllSourceTotal(gdf_clean(attr_rows), "T"))

(***************************************************************************)
(* The merge of the batches' results in the coordinating process, under    *)
(* Spec.                                                                   *)
(***************************************************************************)
\* the batches b..Len(bs) laid end to end
RECURSIVE Flatten(_, _)
Flatten(bs, b) == IF b > Len(bs) THEN <<>> ELSE bs[b] \o Flatten(bs, b + 1)

\* the rows of the batches 1..n in submission order, as their batch function gives them
RECURSIVE RowsOfBatches(_, _, _)
RowsOfBatches(kind, bs, n) ==
    IF n = 0 THEN <<>> ELSE RowsOfBatches(kind, bs, n - 1) \o process_batch(kind, bs[n])

\* C21: under every interleaving of the workers the merged result holds the entries
\* of every batch exactly once: the batches partition the source geometries, what
\* the coordinator holds is the rows of the batches it has taken, in submission
\* order, each taken from the result its worker returned, and a written matrix has
\* exactly one entry per geometry and retained cell.
C21_BatchesMergedExactlyOnce ==
    /\ pc = "computing" =>
          /\ Flatten(batches, 1) = source_data
          /\ results = RowsOfBatches(srcType, batches, next_idx - 1)
          /\ max_workers > 1 =>
                \A b \in 1..Len(batches) :
                   /\ b < next_idx => task[b] = "done"
                   /\ task[b] = "done" => task_result[b] = process_batch(srcType, batches[b])
                   /\ task[b] # "done" => task_result[b] = <<>>
    /\ Readable(matrix_file) =>
          /\ Len(matrix_file.rows) = Len(process_batch(srcType, source_data))
          /\ \A i \in 1..Len(source_data) :
                LET g == source_data[i]
                IN  \A c \in Cells :
                       Cardinality({ r \in 1..Len(matrix_file.rows) :
                                       /\ matrix_file.rows[r].key = g.key
                                       /\ matrix_file.rows[r].h3_index = c })
                          = IF ~NoRetainedOverlap(g) /\ c \in RetainedCells(g) THEN 1 ELSE 0

\* a pool of two workers whose second batch finished before the first, both batches
\* with entries, merged and written
C21_Witness ==
    /\ Len(builds) = 1
    /\ builds[1].workers = 2
    /\ builds[1].order = <<2, 1>>
    /\ Readable(matrix_file)
    /\ Len(source_data) = 3
    /\ \A i \in 1..3 : RowsOfKey(source_data[i].key) # {}

(***************************************************************************)
(* Reporting layer: the scripts 01..05 and the Excel report, each run to   *)
(* its end on the files of the disk.  A disk maps H3_DATA and the paths of *)
(* ReportPaths to files.                                                   *)
(***************************************************************************)
\* the disk of the current state
Disk == [p \in ReportPaths \cup {H3_DATA} |-> IF p = H3_DATA THEN data_file ELSE analysis[p]]

\* DataFrame.write_parquet(path)
WriteParquet(d, path, rows) == [d EXCEPT ![path] = CompleteTable(rows)]

\* OUTPUT_FILE set to the path of the fused dataset: the enrichment done in place
NutsOutputInPlace == H3_DATA

\* 01_prepare_nuts_data OUTPUT_FILE
NutsOutputFile == H3_WITH_NUTS

\* the NUTS level-0 regions of the GeoPackage: [nuts_id, cells], the hex cells whose
\* centroid lies within the region or nearest to it
NutsRegions == { [nuts_id |-> "N1", cells |-> {1, 3}], [nuts_id |-> "N2", cells |-> {2, 4}] }

\* spatial_join_nuts and handle_missing_assignments: every hexagon gets the region
\* it lies in, or the nearest one
spatial_join_nuts(df, regions) ==
    { r @@ [nuts_id_0 |-> (CHOOSE n \in regions : r.h3_index \in n.cells).nuts_id] : r \in df }

\* every row of df has the columns cols
HasColumns(df, cols) == \A r \in df : cols \subseteq DOMAIN r

\* 01_prepare_nuts_data.main: the disk afterwards and the exit status
prepare_nuts_main(d) ==
    IF ~Exists(d[H3_DATA]) \/ ~Exists(d[NUTS_DATA]) THEN [disk |-> d, rc |-> 1]
    ELSE IF ~Readable(d[H3_DATA]) \/ ~Readable(d[NUTS_DATA]) THEN [disk |-> d, rc |-> 1]
    ELSE [disk |-> WriteParquet(d, NutsOutputFile,
                                spatial_join_nuts(d[H3_DATA].rows, d[NUTS_DATA].rows)),
          rc |-> 0]

\* THRESHOLDS of 02_analyze_connectivity, in kbps
CONNECTIVITY_THRESHOLDS == [very_poor |-> 10000, poor |-> 25000, basic |-> 100000]

\* THRESHOLDS of 03_analyze_healthcare, in minutes
HEALTHCARE_THRESHOLDS == [very_close |-> 5, close |-> 10, moderate |-> 15, far |-> 30]

TIERS == {"disconnected", "very_poor", "poor", "basic", "good"}

CATEGORIES == {"very_close", "close", "moderate", "far", "very_far", "no_data"}

\* classify_connectivity: the tier of a download speed
Tier(v) ==
    IF IsNull(v) THEN "disconnected"
    ELSE IF RatLt(v, FromInt(CONNECTIVITY_THRESHOLDS.very_poor)) THEN "very_poor"
    ELSE IF RatLt(v, FromInt(CONNECTIVITY_THRESHOLDS.poor)) THEN "poor"
    ELSE IF RatLt(v, FromInt(CONNECTIVITY_THRESHOLDS.basic)) THEN "basic"
    ELSE "good"

\* classify_travel_time: the category of health_distance / 60.0
Category(v) ==
    IF IsNull(v) THEN "no_data"
    ELSE LET minutes == RatDiv(v, FromInt(60))
         IN  IF RatLt(minutes, FromInt(HEALTHCARE_THRESHOLDS.very_close)) THEN "very_close"
             ELSE IF RatLt(minutes, FromInt(HEALTHCARE_THRESHOLDS.close)) THEN "close"
             ELSE IF RatLt(minutes, FromInt(HEALTHCARE_THRESHOLDS.moderate)) THEN "moderate"
             ELSE IF RatLt(minutes, FromInt(HEALTHCARE_THRESHOLDS.far)) THEN "far"
             ELSE "very_far"

\* classify_connectivity_groups
Group(v) ==
    IF IsNull(v) \/ RatLt(v, FromInt(10000)) THEN "underserved"
    ELSE IF RatLe(FromInt(100000), v) THEN "well_connected"
    ELSE "intermediate"

\* "Europe" and the NUTS regions of the rows of df
RegionsOf(df) == {"Europe"} \cup { r.nuts_id_0 : r \in df }

RegionRows(df, region) == IF region = "Europe" THEN df ELSE { r \in df : r.nuts_id_0 = region }

\* Series.sum() of a column, nulls skipped
ColumnSum(S, col) ==
    LET nn == { r \in S : ~IsNull(r[col]) } IN SumF(nn, [r \in nn |-> r[col]])

\* (pop / total_pop * 100) if total_pop > 0 else 0
Percentage(pop, total_pop) ==
    IF RatLt(Zero, total_pop) THEN RatMul(RatDiv(pop, total_pop), FromInt(100)) ELSE Zero

\* aggregate_europe and aggregate_by_nuts of 02: the population per region and tier
connectivity_tiers(df) ==
    { [region |-> g, metric_type |-> m, tier |-> t,
       population |-> ColumnSum({ r \in RegionRows(df, g) :
                                    Tier(r[m \o "_download_2023"]) = t }, "pop_total"),
       percentage |-> Percentage(ColumnSum({ r \in RegionRows(df, g) :
                                               Tier(r[m \o "_download_2023"]) = t }, "pop_total"),
                                 ColumnSum(RegionRows(df, g), "pop_total")),
       hexagon_count |-> Cardinality({ r \in RegionRows(df, g) :
                                         Tier(r[m \o "_download_2023"]) = t })] :
      g \in RegionsOf(df), m \in {"fixed", "mobile"}, t \in TIERS }

\* the speed statistics of 02: the share of the population with a measured speed
connectivity_stats(df) ==
    { [region |-> g, metric_type |-> m, metric_name |-> "coverage_pct",
       value |-> Percentage(ColumnSum({ r \in RegionRows(df, g) :
                                          ~IsNull(r[m \o "_download_2023"]) }, "pop_total"),
                            ColumnSum(RegionRows(df, g), "pop_total"))] :
      g \in RegionsOf(df), m \in {"fixed", "mobile"} }

\* 02_analyze_connectivity.main
connectivity_main(d) ==
    IF ~Exists(d[H3_WITH_NUTS]) THEN [disk |-> d, rc |-> 1]
    ELSE IF \/ ~Readable(d[H3_WITH_NUTS])
            \/ ~HasColumns(d[H3_WITH_NUTS].rows,
                           {"fixed_download_2023", "mobile_download_2023", "pop_total"})
    THEN [disk |-> d, rc |-> 1]
    ELSE LET df == d[H3_WITH_NUTS].rows
         IN  [disk |-> WriteParquet(WriteParquet(d, CONNECTIVITY_FILE, connectivity_tiers(df)),
                                    CONNECTIVITY_STATS, connectivity_stats(df)),
              rc |-> 0]

\* aggregate_europe and aggregate_by_nuts of 03: the population per region and category
healthcare_categories(df) ==
    { [region |-> g, category |-> c,
       population |-> ColumnSum({ r \in RegionRows(df, g) :
                                    Category(r.health_distance) = c }, "pop_total"),
       percentage |-> Percentage(ColumnSum({ r \in RegionRows(df, g) :
                                               Category(r.health_distance) = c }, "pop_total"),
                                 ColumnSum(RegionRows(df, g), "pop_total"))] :
      g \in RegionsOf(df), c \in CATEGORIES }

\* the statistics of 03: the population beyond 5, 10, 15 and 30 minutes per region
healthcare_stats(df) ==
    { [region |-> g, metric_name |-> "pop_gt_min", threshold |-> t,
       value |-> ColumnSum({ r \in RegionRows(df, g) :
                               /\ ~IsNull(r.health_distance)
                               /\ RatLt(FromInt(t), RatDiv(r.health_distance, FromInt(60))) },
                           "pop_total")] :
      g \in RegionsOf(df), t \in {5, 10, 15, 30} }

\* 03_analyze_healthcare.main
healthcare_main(d) ==
    IF ~Exists(d[H3_WITH_NUTS]) THEN [disk |-> d, rc |-> 1]
    ELSE IF \/ ~Readable(d[H3_WITH_NUTS])
            \/ ~HasColumns(d[H3_WITH_NUTS].rows, {"health_distance", "pop_total"})
    THEN [disk |-> d, rc |-> 1]
    ELSE LET df == d[H3_WITH_NUTS].rows
         IN  [disk |-> WriteParquet(WriteParquet(d, HEALTHCARE_FILE, healthcare_categories(df)),
                                    HEALTHCARE_STATS, healthcare_stats(df)),
              rc |-> 0]

\* aggregate_demographics_europe and _by_nuts of 04: a row per region and non-empty group
demographics(df) ==
    { [region |-> x[1], connectivity_group |-> x[2],
       total_population |->
          ColumnSum({ r \in RegionRows(df, x[1]) : Group(r.fixed_download_2023) = x[2] },
                    "pop_total"),
       pop_male |->
          ColumnSum({ r \in RegionRows(df, x[1]) : Group(r.fixed_download_2023) = x[2] },
                    "pop_male")] :
      x \in { y \in RegionsOf(df) \X {"underserved", "well_connected", "intermediate"} :
                \E r \in RegionRows(df, y[1]) : Group(r.fixed_download_2023) = y[2] } }

\* analyze_joint_vulnerability: poor internet and more than 15 / 30 minutes from care
joint_vulnerability(df) ==
    { [region |-> g, threshold_minutes |-> t,
       vulnerable_population |->
          ColumnSum({ r \in RegionRows(df, g) :
                        /\ Group(r.fixed_download_2023) = "underserved"
                        /\ ~IsNull(r.health_distance)
                        /\ RatLt(FromInt(t), RatDiv(r.health_distance, FromInt(60))) },
                    "pop_total"),
       total_population |-> ColumnSum(RegionRows(df, g), "pop_total")] :
      g \in RegionsOf(df), t \in {15, 30} }

\* 04_demographics.main
demographics_main(d) ==
    IF ~Exists(d[H3_WITH_NUTS]) THEN [disk |-> d, rc |-> 1]
    ELSE IF \/ ~Readable(d[H3_WITH_NUTS])
            \/ ~HasColumns(d[H3_WITH_NUTS].rows,
                           {"fixed_download_2023", "health_distance", "pop_total"})
    THEN [disk |-> d, rc |-> 1]
    ELSE LET df == d[H3_WITH_NUTS].rows
         IN  [disk |-> WriteParquet(WriteParquet(d, DEMOGRAPHICS_FILE, demographics(df)),
                                    JOINT_VULN_FILE, joint_vulnerability(df)),
              rc |-> 0]

\* 05_generate_maps.main: the figures drawn from the analysis files
generate_maps_main(d) ==
    IF \E f \in {CONNECTIVITY_FILE, HEALTHCARE_FILE, DEMOGRAPHICS_FILE} : ~Exists(d[f])
    THEN [disk |-> d, rc |-> 1]
    ELSE IF \E f \in {CONNECTIVITY_FILE, HEALTHCARE_FILE, DEMOGRAPHICS_FILE,
                      HEALTHCARE_STATS} : ~Readable(d[f])
    THEN [disk |-> d, rc |-> 1]
    ELSE [disk |-> [d EXCEPT ![FIGURES] =
                      CompleteTable({ [figure |-> "connectivity", data |-> d[CONNECTIVITY_FILE].rows],
                                      [figure |-> "healthcare", data |-> d[HEALTHCARE_STATS].rows],
                                      [figure |-> "demographics",
                                       data |-> d[DEMOGRAPHICS_FILE].rows] })],
          rc |-> 0]

\* run_analysis.create_excel_report: the workbook built from the analysis files
create_excel_report(d) ==
    IF \E f \in {CONNECTIVITY_FILE, CONNECTIVITY_STATS, HEALTHCARE_FILE, HEALTHCARE_STATS,
                 DEMOGRAPHICS_FILE} : ~Readable(d[f])
    THEN [disk |-> d, rc |-> 1]
    ELSE [disk |-> [d EXCEPT ![EXCEL_REPORT] =
                      CompleteTable({ [sheet |-> "Connectivity", data |-> d[CONNECTIVITY_FILE].rows],
                                      [sheet |-> "Healthcare", data |-> d[HEALTHCARE_FILE].rows],
                                      [sheet |-> "Demographics",
                                       data |-> d[DEMOGRAPHICS_FILE].rows] })],
          rc |-> 0]

\* the steps of the reporting layer
ANALYSIS_SCRIPTS ==
    { "01_prepare_nuts_data", "02_analyze_connectivity", "03_analyze_healthcare",
      "04_demographics", "05_generate_maps", "create_excel_report" }

StepEffect(step, d) ==
    CASE step = "01_prepare_nuts_data" -> prepare_nuts_main(d)
      [] step = "02_analyze_connectivity" -> connectivity_main(d)
      [] step = "03_analyze_healthcare" -> healthcare_main(d)
      [] step = "04_demographics" -> demographics_main(d)
      [] step = "05_generate_maps" -> generate_maps_main(d)
      [] step = "create_excel_report" -> create_excel_report(d)

\* one step of the reporting layer run to its end
AnalysisStep(step) ==
    /\ pc = "idle"
    /\ LET e == StepEffect(step, Disk)
       IN  /\ data_file' = e.disk[H3_DATA]
           /\ analysis' = [p \in ReportPaths |-> e.disk[p]]
           /\ stage_result' = Result(step, IF e.rc = 0 THEN "ok" ELSE "failed")
    /\ UNCHANGED <<pipeline, fs, inputVars, matrix_file, pc, poolVars, outcome, runs, loads,
                   builds, pop_file, cache_file, internet_file, health_file>>

\* the per-source tables of the reporting worlds: the row of cell 1 varies
ReportPopTables ==
    { { [h3_index |-> c, T |-> IF c = 1 THEN t ELSE FromInt(1700), M |-> Rat(1, 4),
         cell_count |-> 1] : c \in FuseCells } :
      t \in { Rat(3, 10), FromInt(1700) } }

ReportHealthTables ==
    { { [h3_index |-> c, accessibility_mean |-> IF c = 1 THEN a ELSE FromInt(2000),
         pixel_count |-> 4] : c \in { x \in FuseCells : x # 1 \/ ~IsNull(a) } } :
      a \in { Null, Rat(2513, 200), FromInt(2000) } }

ReportInternetTables ==
    { { [h3_index |-> c, h3_resolution |-> 8, fixed_download_2023 |-> f[c],
         fixed_download_total |-> f[c], mobile_download_2023 |-> FromInt(30000),
         mobile_download_total |-> FromInt(30000)] :
          c \in { x \in FuseCells : ~IsNull(f[x]) } } :
      f \in { g \in [FuseCells -> { Null, FromInt(5000), FromInt(150000) }] :
                \A c \in FuseCells : c > 2 => g[c] = FromInt(5000) } }

InitReport ==
    /\ srcType = "grid"
    /\ source_data = <<>>
    /\ attr_rows = <<>>
    /\ quarter_rows = NoQuarters
    /\ round_mode = "half_to_even"
    /\ matrix_file = Absent
    /\ InitBuilder
    /\ pop_file \in { CompleteTable(t) : t \in ReportPopTables }
    /\ cache_file = NoCaches
    /\ internet_file \in { CompleteTable(t) : t \in ReportInternetTables }
    /\ health_file \in { CompleteTable(t) : t \in ReportHealthTables }
    /\ data_file = AbsentTable
    /\ stage_result = Result("none", "none")
    /\ pipeline = [status |-> "idle", log |-> <<>>]
    /\ fs = <<>>
    /\ analysis \in { [NoAnalysis EXCEPT ![NUTS_DATA] = n] :
                        n \in { AbsentTable, CompleteTable(NutsRegions) } }

NextReport ==
    \/ MergeMain
    \/ \E step \in ANALYSIS_SCRIPTS : AnalysisStep(step)

SpecReport == InitReport /\ [][NextReport]_vars

CoveredArea(g) ==
    LET cand == RowSet(grid_disk(g.center, K_RING_SIZE))
    IN  SumF(cand, [c \in cand |-> FromInt(IntersectionArea(g, c))])

\* g reaches beyond grid_disk(center, K_RING_SIZE): its candidate cells hold a part
\* of its area only, and it has entries
PartlyCovered(g) ==
    /\ ~NoRetainedOverlap(g)
    /\ RatLt(CoveredArea(g), FromInt(g.area))

\* the sum of the weights of the entries of key k in the written matrix
WeightSumOfKey(k) == SumF(RowsOfKey(k), [r \in RowsOfKey(k) |-> r.weight])

ColumnTerms(df, c, col, missing) ==
    { x \in (1..Len(df)) \X (1..Len(matrix_file.rows)) :
        /\ df[x[1]].key = matrix_file.rows[x[2]].key
        /\ matrix_file.rows[x[2]].h3_index = c
        /\ df[x[1]][col] # missing }

\* the sum of value * weight over the terms
TermSum(df, c, col, missing) ==
    LET terms == ColumnTerms(df, c, col, missing)
    IN  SumF(terms, [x \in terms |-> RatMul(df[x[1]][col], matrix_file.rows[x[2]].weight)])

\* the sum of the weights of the matrix entries on cell c joined to a row of df
JoinedWeight(df, c) ==
    LET pairs == { x \in (1..Len(df)) \X (1..Len(matrix_file.rows)) :
                     /\ df[x[1]].key = matrix_file.rows[x[2]].key
                     /\ matrix_file.rows[x[2]].h3_index = c }
    IN  SumF(pairs, [x \in pairs |-> matrix_file.rows[x[2]].weight])

\* C24: null handling is per column: in every aggregated cell, each column holds the
\* weighted values of all joined source rows that have a value in that column, the
\* rows that are null in another column included.
C24_NullsPerColumn ==
    /\ (srcType = "grid" /\ stage_result = Result("population", "ok")) =>
          \A r \in pop_file.rows : \A col \in {"T", "M"} :
             r[col] = TermSum(attr_rows, r.h3_index, col, FromInt(NODATA))
    /\ (srcType = "quadkey" /\ stage_result.stage = "internet") =>
          \A q \in QuarterIds :
             (Readable(cache_file[q]) /\ Readable(quarter_rows[q])) =>
                \A r \in cache_file[q].rows :
                   /\ r.tests = TermSum(quarter_rows[q].rows, r.h3_index, "tests", Null)
                   /\ RatMul(r.avg_d_kbps, JoinedWeight(quarter_rows[q].rows, r.h3_index))
                         = TermSum(quarter_rows[q].rows, r.h3_index, "avg_d_kbps", Null)

\* a census cell without a total but with 400 men lies in one hex by itself: the hex
\* has its 400 men
C24_Witness ==
    /\ srcType = "grid" /\ stage_result = Result("population", "ok")
    /\ \E i \in 1..Len(attr_rows) : \E r \in pop_file.rows :
          /\ attr_rows[i].T = FromInt(NODATA) /\ attr_rows[i].M = FromInt(400)
          /\ Cardinality(ColumnTerms(attr_rows, r.h3_index, "M", FromInt(NODATA))) = 1
          /\ \E x \in ColumnTerms(attr_rows, r.h3_index, "M", FromInt(NODATA)) :
                x[1] = i /\ matrix_file.rows[x[2]].weight = One
          /\ r.M = FromInt(400)
          /\ r.cell_count = 1

(***************************************************************************)
(* The order of the orchestrator's stages, under SpecPipeline.             *)
(***************************************************************************)
\* C25: the orchestrator runs grid matrix, quadkey matrix, population ETL, health
\* ETL, internet ETL and merge in this order; a stage is started only after the one
\* before it exited with status zero, and on the first non-zero exit the orchestrator
\* exits with status 1 and starts no later stage.
C25_StagesInOrderStopAtFailure ==
    LET order == << "grid_matrix", "quadkey_matrix", "population", "health", "internet",
                    "merge" >>
        log == pipeline.log
    IN  /\ Len(log) <= 6
        /\ \A i \in DOMAIN log : log[i].script = order[i]
        /\ \A i \in 1..(Len(log) - 1) : log[i].returncode = 0
        /\ pipeline.status = "failed" <=> (log # <<>> /\ log[Len(log)].returncode # 0)
        /\ pipeline.status = "completed" <=>
              (Len(log) = 6 /\ \A i \in DOMAIN log : log[i].returncode = 0)

\* the health ETL, fourth of the run, ends on an exception after three stages that
\* exited with zero: the run is failed and nothing later was started
C25_Witness ==
    /\ pipeline.status = "failed"
    /\ Len(pipeline.log) = 4
    /\ pipeline.log[3].result = "ok"
    /\ pipeline.log[4].script = "health" /\ pipeline.log[4].returncode = 1
    /\ ~Exists(fs.internet) /\ ~Exists(fs.data)

(***************************************************************************)
(* The rollup columns of the internet table, under SpecAggregate.          *)
(***************************************************************************)
\* the quarter files of modality m a run has a cache for, of 2023 only or of all years
ProcessedQuarters(m, only2023) ==
    { q \in QuarterIds : /\ Exists(quarter_rows[q]) /\ Readable(cache_file[q])
                         /\ QUARTER_FILES[q].data_type = m
                         /\ (only2023 => QUARTER_FILES[q].year = 2023) }

\* the non-null download speeds the caches of the quarters Q hold for cell c, by quarter
QuarterSpeeds(Q, c) ==
    UNION { { <<q, r.avg_d_kbps>> :
                r \in { x \in cache_file[q].rows : x.h3_index = c /\ ~IsNull(x.avg_d_kbps) } } :
            q \in Q }

\* the mean of the speeds of a set of <<quarter, speed>> pairs, null for the empty set
MeanSpeed(S) ==
    IF S = {} THEN Null
    ELSE RatDiv(SumF(S, [x \in S |-> x[2]]), FromInt(Cardinality(S)))

\* C26: for each modality the internet table's <modality>_download_2023 of a cell is
\* the mean of the cell's non-null per-quarter values of the 2023 quarters and
\* <modality>_download_total the mean over all processed quarters, null when the cell
\* has no non-null value among them; the table has a row for every cell of a cache,
\* and beside the cell index only rollup columns are kept.
C26_InternetRollups ==
    (srcType = "quadkey" /\ stage_result = Result("internet", "ok")) =>
       /\ CellsOf(internet_file.rows)
             = UNION { CellsOf(cache_file[q].rows) :
                         q \in { x \in QuarterIds : Exists(quarter_rows[x]) } }
       /\ \A r \in internet_file.rows :
             /\ DOMAIN r \subseteq {"h3_index"} \cup
                   { m \o "_download_" \o p : m \in {"fixed", "mobile"}, p \in {"2023", "total"} }
             /\ \A m \in {"fixed", "mobile"} : \A only2023 \in BOOLEAN :
                   LET Q == ProcessedQuarters(m, only2023)
                       col == m \o "_download_" \o (IF only2023 THEN "2023" ELSE "total")
                   IN  IF Q = {} THEN col \notin DOMAIN r
                       ELSE /\ col \in DOMAIN r
                            /\ r[col] = MeanSpeed(QuarterSpeeds(Q, r.h3_index))

\* a cell with fixed speeds in a 2023 quarter and in a 2024 quarter: the total is the
\* mean of the two, the 2023 column the 2023 value; another cell has no 2023 value and
\* a null there
C26_Witness ==
    /\ srcType = "quadkey" /\ stage_result = Result("internet", "ok")
    /\ \E r \in internet_file.rows :
          /\ Cardinality(QuarterSpeeds(ProcessedQuarters("fixed", FALSE), r.h3_index)) = 2
          /\ ~IsNull(r.fixed_download_2023)
          /\ r.fixed_download_total # r.fixed_download_2023
    /\ \E r \in internet_file.rows :
          /\ IsNull(r.fixed_download_2023)
          /\ ~IsNull(r.fixed_download_total)

(***************************************************************************)
(* Builder runs that end without entries, under Spec.                      *)
(***************************************************************************)
\* C27: a build that finds no source geometries or produces no entries writes no
\* matrix artifact, and the builder run after it does not take the cache branch: it
\* loads the input again.
C27_EmptyBuildWritesNothing ==
    [][ /\ (outcome' \in {"no_data", "no_intersections"} /\ outcome' # outcome) =>
              ~Exists(matrix_file')
        /\ (outcome \in {"no_data", "no_intersections"} /\ runs' = runs + 1) =>
              /\ outcome' \notin {"cache_hit", "read_error"}
              /\ loads' = loads + 1 ]_vars

\* a build over geometries none of which has an entry ended without an artifact, and
\* so did the run after it, which loaded the input again
C27_Witness ==
    /\ outcome = "no_intersections"
    /\ source_data # <<>>
    /\ runs = 2 /\ loads = 2
    /\ ~Exists(matrix_file)
    /\ builds = <<>>

(***************************************************************************)
(* Pipeline runs one after the other.  Between two runs the operator       *)
(* replaces a source, deletes the matrix built from it and starts          *)
(* run_pipeline again, with or without deleting the outputs computed from  *)
(* the matrix.                                                             *)
(***************************************************************************)
\* the source lists of these worlds: one geometry, or the same with a second one
RerunSources ==
    LET split == [area |-> 10, inter |-> <<0, 0, 7, 3>>, bad |-> FALSE]
    IN  { <<Geom(1, split)>>, <<Geom(1, split), Geom(2, split)>> }

InitRerun ==
    /\ srcType = "grid"
    /\ source_data = <<>>
    /\ attr_rows = <<>>
    /\ quarter_rows = NoQuarters
    /\ round_mode = "half_to_even"
    /\ matrix_file = Absent
    /\ InitBuilder
    /\ pop_file = AbsentTable
    /\ cache_file = NoCaches
    /\ internet_file = AbsentTable
    /\ health_file = AbsentTable
    /\ data_file = AbsentTable
    /\ stage_result = Result("none", "none")
    /\ pipeline = [status |-> "running", log |-> <<>>]
    /\ analysis = NoAnalysis
    /\ fs \in { [zip |-> TRUE, gpkg |-> TRUE, census |-> c, quadkeys |-> q, raster |-> TRUE,
                 grid_matrix |-> Absent, quadkey_matrix |-> Absent, pop |-> AbsentTable,
                 health |-> AbsentTable, caches |-> NoCaches, internet |-> AbsentTable,
                 data |-> AbsentTable] :
               c \in RerunSources, q \in RerunSources }

\* after a completed run: a source is replaced, its matrix deleted (and, with
\* outputs_too, the outputs computed from the matrix), and run_pipeline started again
OperatorRebuild(upstream, src, outputs_too) ==
    /\ pipeline.status = "completed"
    /\ fs' = IF upstream = "grid"
             THEN [fs EXCEPT !.census = src, !.grid_matrix = Absent,
                             !.pop = IF outputs_too THEN AbsentTable ELSE @]
             ELSE [fs EXCEPT !.quadkeys = src, !.quadkey_matrix = Absent,
                             !.caches = IF outputs_too THEN NoCaches ELSE @,
                             !.internet = IF outputs_too THEN AbsentTable ELSE @]
    /\ pipeline' = [status |-> "running", log |-> <<>>]
    /\ UNCHANGED <<inputVars, matrix_file, pc, poolVars, outcome, runs, loads, builds,
                   tableVars, stage_result, analysis>>

NextRerun ==
    \/ RunScript
    \/ \E upstream \in {"grid", "quadkey"}, src \in RerunSources, outputs_too \in BOOLEAN :
          OperatorRebuild(upstream, src, outputs_too)

SpecRerun == InitRerun /\ [][NextRerun]_vars

\* the per-cell tables and caches as computed from the matrices and sources of f
FreshPop(f) == CompleteTable(PopulationAggregate(DefaultAttrs(f.census), f.grid_matrix.rows))

FreshCache(f, q) ==
    CompleteTable(QuarterAggregate(DefaultQuarters(f.quadkeys)[q].rows, f.quadkey_matrix.rows))

\* C28 as stated: when a pipeline run has completed, every per-cell table and cache
\* file that exists is the one computed from the matrix and the source files that
\* exist at that time.
C28_OutputsFreshAfterRun ==
    pipeline.status = "completed" =>
       /\ Exists(fs.pop) => (Readable(fs.grid_matrix) /\ fs.pop = FreshPop(fs))
       /\ \A q \in QuarterIds :
             Exists(fs.caches[q]) =>
                (Readable(fs.quadkey_matrix) /\ fs.caches[q] = FreshCache(fs, q))
       /\ Exists(fs.internet) =>
             fs.internet = CompleteTable(InternetTable(
                [q \in QuarterIds |-> FreshCache(fs, q).rows]))

\* C28 amended: a run computes a per-cell table or cache from the matrix and sources
\* of that time only where the output file does not exist; an output that exists is
\* left as it is, whatever happened to the matrix; the fused dataset alone is computed
\* anew by every run, from the tables as they are.
C28_ExistingOutputsKept ==
    [][ RunScript =>
          LET script == SCRIPTS[Len(pipeline.log) + 1]
          IN  /\ script = "population" =>
                    IF Exists(fs.pop) THEN fs'.pop = fs.pop
                    ELSE Readable(fs.grid_matrix) => fs'.pop = FreshPop(fs)
              /\ script = "health" => (Exists(fs.health) => fs'.health = fs.health)
              /\ script = "internet" =>
                    /\ \A q \in QuarterIds :
                          IF Exists(fs.caches[q]) THEN fs'.caches[q] = fs.caches[q]
                          ELSE (Readable(fs.quadkey_matrix) /\ ~Exists(fs.internet)) =>
                                  fs'.caches[q] = FreshCache(fs, q)
                    /\ IF Exists(fs.internet) THEN fs'.internet = fs.internet
                       ELSE Readable(fs.quadkey_matrix) =>
                               fs'.internet = CompleteTable(InternetTable(
                                  [q \in QuarterIds |-> fs'.caches[q].rows]))
              /\ script = "merge" =>
                    fs'.data = CompleteTable(save_output(filter_and_finalize(
                                  merge_datasets(prepare_population_data(fs.pop.rows),
                                                 prepare_health_data(fs.health.rows),
                                                 prepare_internet_data(fs.internet.rows))),
                                  round_mode)) ]_vars

\* a run has completed on a matrix rebuilt from a replaced source, and the population
\* table is still the one of the run before: it lacks the cells of the new geometry,
\* and the fused dataset was computed from it
C28_Witness ==
    /\ pipeline.status = "completed"
    /\ Len(fs.census) = 2
    /\ Readable(fs.grid_matrix) /\ Len(fs.grid_matrix.rows) = 4
    /\ Readable(fs.pop)
    /\ fs.pop # FreshPop(fs)
    /\ CellsOf(fs.pop.rows) = {1, 2}
    /\ CellsOf(FreshPop(fs).rows) = {1, 2, 3}
    /\ Readable(fs.data)

\* a table has at most one row for an h3_index
OnePerCell(rows) == \A r1 \in rows, r2 \in rows : r1.h3_index = r2.h3_index => r1 = r2

\* the cells of the per-quarter cache files that exist
CachedCells(f) == UNION { CellsOf(f.caches[q].rows) : q \in { x \in QuarterIds : Exists(f.caches[x]) } }

\* C29: with the per-cell tables the aggregators of a pipeline run produced (one row
\* per cell each), the fused dataset has at most one row per cell: the inner join with
\* health and the left join with internet keep exactly the population cells that have
\* a health row, once each; and the internet table has exactly one row for each cell
\* that appears in any per-quarter cache file.
C29_OneRowPerCell ==
    /\ Readable(fs.pop) => OnePerCell(fs.pop.rows)
    /\ Readable(fs.health) => OnePerCell(fs.health.rows)
    /\ Readable(fs.internet) =>
          /\ OnePerCell(fs.internet.rows)
          /\ CellsOf(fs.internet.rows) = CachedCells(fs)
    /\ (Readable(fs.pop) /\ Readable(fs.health) /\ Readable(fs.internet)) =>
          LET pop_df == prepare_population_data(fs.pop.rows)
              health_df == prepare_health_data(fs.health.rows)
              internet_df == prepare_internet_data(fs.internet.rows)
              inner == JoinInner(pop_df, health_df)
              merged == merge_datasets(pop_df, health_df, internet_df)
          IN  /\ OnePerCell(inner)
              /\ CellsOf(inner) = CellsOf(pop_df) \cap CellsOf(health_df)
              /\ OnePerCell(merged)
              /\ CellsOf(merged) = CellsOf(inner)
              /\ Cardinality(merged) = Cardinality(CellsOf(inner))
    /\ Readable(fs.data) =>
          /\ OnePerCell(fs.data.rows)
          /\ CellsOf(fs.data.rows) \subseteq CellsOf(fs.pop.rows) \cap CellsOf(fs.health.rows)

\* a completed run whose fused dataset has two cells, one of them with an internet row
\* and one without, and whose internet table has the cells of the three caches
C29_Witness ==
    /\ pipeline.status = "completed"
    /\ Readable(fs.data) /\ Cardinality(fs.data.rows) = 2
    /\ Readable(fs.internet)
    /\ \A q \in QuarterIds : Readable(fs.caches[q])
    /\ Cardinality(CellsOf(fs.internet.rows)) >= 2
    /\ \E c \in CellsOf(fs.data.rows) : c \in CellsOf(fs.internet.rows)
    /\ \E c \in CellsOf(fs.data.rows) : c \notin CellsOf(fs.internet.rows)

=============================================================================
